---- MODULE Spec2Model ----
(***************************************************************************)
(* The connection registries of backend-rust/src/websocket/manager.rs and  *)
(* the socket tasks of backend-rust/src/websocket/handlers.rs.             *)
(*                                                                         *)
(* A step of the model is the code a task runs from one .await to the      *)
(* next: acquiring a tokio RwLock, a sink's send, a sink's close.  Shared  *)
(* state is only touched under the locks, so such a segment is atomic.     *)
(***************************************************************************)
EXTENDS Integers, Sequences, FiniteSets, TLC

\* ------------------------------------------------------------------ bounds
\* Calls a request task issues (broadcast_to_lobby, kick_player).
MaxOps == 1
\* Control messages an admin socket sends before it closes.
MaxMsgs == 1
\* Text messages an admin socket sends in the specification of the receive
\* loops.
MaxLoopMsgs == 2
\* Calls one route handler task makes one after the other in SpecSeq.
MaxSeqOps == 2

\* ------------------------------------------------------------ the universe
Lobbies == {1, 2}
Sessions == {"s1", "s2"}
\* Player sockets: the (lobby_id, player_session_id) of the upgrade's path.
\* p4 is a second socket of p1's key.
PSocks == {"p1", "p2", "p3", "p4"}
PLobby(p) == IF p = "p3" THEN 2 ELSE 1
PSess(p) == IF p = "p2" THEN "s2" ELSE "s1"
\* Admin sockets: the web_session_id of the upgrade's path.  a3 is a second
\* socket of a1's session.
ASocks == {"a1", "a2", "a3"}
AWeb(a) == IF a = "a2" THEN "w2" ELSE "w1"
\* Route handlers calling into the lobby manager.  r2 runs only in the
\* specifications of the routes.
Reqs == {"r1", "r2"}
Socks == PSocks \cup ASocks
Tasks == Socks \cup Reqs
NoTask == "none"
NoSock == "nosock"

VARIABLES pc, lk, players, admins, subs, closed, received, call, hmsg,
          opsLeft, msgsLeft, att, fails, dirty, lastOp, log, store, rq

vars == <<pc, lk, players, admins, subs, closed, received, call, hmsg,
          opsLeft, msgsLeft, att, fails, dirty, lastOp, log, store, rq>>

\* ------------------------------------------------------------------- maps
EmptyMap == <<>>
\* HashMap::insert
Insert(m, k, v) == [x \in (DOMAIN m) \cup {k} |-> IF x = k THEN v ELSE m[x]]
\* HashMap::remove
Remove(m, k) == [x \in (DOMAIN m) \ {k} |-> m[x]]

\* ------------------------------------------------------------------ locks
\* tokio::sync::RwLock: readers share, a writer excludes, waiters are served
\* in FIFO order (a reader arriving behind a waiting writer waits).
PLock == <<"P", "">>
ALock == <<"A", "">>
ConnLock(a) == <<"conn", a>>
SinkLock(s) == <<"sink", s>>
NoLock == <<"", "">>
LockIds == {PLock, ALock} \cup {ConnLock(a) : a \in ASocks}
             \cup {SinkLock(s) : s \in Socks}
FreeLock == [r |-> {}, w |-> NoTask, q |-> <<>>]

Compatible(L, l, m) ==
  IF m = "r" THEN L[l].w = NoTask ELSE L[l].w = NoTask /\ L[l].r = {}

CanTake(L, l, t, m) ==
  /\ Compatible(L, l, m)
  /\ IF L[l].q = <<>> THEN TRUE ELSE Head(L[l].q) = <<t, m>>

Take(L, l, t, m) ==
  [L EXCEPT ![l] = [r |-> IF m = "r" THEN @.r \cup {t} ELSE @.r,
                    w |-> IF m = "w" THEN t ELSE @.w,
                    q |-> IF @.q # <<>> /\ Head(@.q)[1] = t
                          THEN Tail(@.q) ELSE @.q]]

RelR(L, l, t) == [L EXCEPT ![l].r = @ \ {t}]
RelW(L, l, t) == [L EXCEPT ![l].w = IF @ = t THEN NoTask ELSE @]

Queued(L, l, t) == \E i \in 1..Len(L[l].q) : L[l].q[i][1] = t

\* ----------------------------------------------------------------- events
\* PlayerKickedEvent::new / JoinedLobbyEvent::new: (event_type, lobby_id,
\* player_session_id).
PlayerKickedEvent(l, s) == <<"player_kicked", l, s>>
JoinedLobbyEvent(l, s) == <<"player_joined", l, s>>
DisconnectedLobbyEvent(l, s) == <<"player_disconnected", l, s>>
TeamAssignedEvent(l, s) == <<"team_assigned", l, s>>
\* TeamChangedEvent::new: the old and the new team id follow.
TeamChangedEvent(l, s, o, n) == <<"team_changed", l, s, o, n>>
\* The event structs.
EventKinds == {"JoinedLobbyEvent", "DisconnectedLobbyEvent",
               "PlayerKickedEvent", "TeamAssignedEvent", "TeamChangedEvent"}
\* X::new(..) of event struct k.
NewEvent(k, l, s, o, n) ==
  CASE k = "JoinedLobbyEvent" -> JoinedLobbyEvent(l, s)
    [] k = "DisconnectedLobbyEvent" -> DisconnectedLobbyEvent(l, s)
    [] k = "PlayerKickedEvent" -> PlayerKickedEvent(l, s)
    [] k = "TeamAssignedEvent" -> TeamAssignedEvent(l, s)
    [] OTHER -> TeamChangedEvent(l, s, o, n)
\* Mutant of EventType: the method of DisconnectedLobbyEvent names the event
\* otherwise than its constructor.
EventTypeRenamed(k) ==
  CASE k = "JoinedLobbyEvent" -> "player_joined"
    [] k = "DisconnectedLobbyEvent" -> "player_left"
    [] k = "PlayerKickedEvent" -> "player_kicked"
    [] k = "TeamAssignedEvent" -> "team_assigned"
    [] OTHER -> "team_changed"
\* <X as LobbyEvent>::event_type of event struct k.
EventType(k) ==
  CASE k = "JoinedLobbyEvent" -> "player_joined"
    [] k = "DisconnectedLobbyEvent" -> "player_disconnected"
    [] k = "PlayerKickedEvent" -> "player_kicked"
    [] k = "TeamAssignedEvent" -> "team_assigned"
    [] OTHER -> "team_changed"
\* The session id join_lobby draws for a new player, Uuid::new_v4(): a fresh
\* one at each call, numbered here by the calls the task has left.
NewSessionId(n) == <<"uuid", n>>

\* ------------------------------------------------- the registries' updates
HasKey(m, l, s) == l \in DOMAIN m /\ s \in DOMAIN m[l]

\* Mutant of ConnectMap: a key that is registered keeps its sink.
ConnectMapKeepsFirst(m, l, s, sink) ==
  IF l \in DOMAIN m /\ s \in DOMAIN m[l] THEN m
  ELSE Insert(m, l, Insert(IF l \in DOMAIN m THEN m[l] ELSE EmptyMap, s, sink))

\* LobbyWebSocketManager::connect: entry(lobby_id).or_insert_with(HashMap::new)
\* .insert(player_session_id, sender).
ConnectMap(m, l, s, sink) ==
  Insert(m, l, Insert(IF l \in DOMAIN m THEN m[l] ELSE EmptyMap, s, sink))

\* Mutant of DisconnectMap: a disconnect that finds no entry leaves a vacant
\* one behind.
DisconnectMapMarksAbsent(m, l, s) ==
  IF l \in DOMAIN m /\ s \in DOMAIN m[l]
  THEN LET b == Remove(m[l], s)
       IN IF DOMAIN b = {} THEN Remove(m, l) ELSE Insert(m, l, b)
  ELSE Insert(m, l, Insert(IF l \in DOMAIN m THEN m[l] ELSE EmptyMap, s, NoSock))

\* Mutant of DisconnectMap: the entry is not removed.
DisconnectMapKeepsEntry(m, l, s) == m

\* LobbyWebSocketManager::disconnect: remove the entry, and the bucket when it
\* is left empty.
DisconnectMap(m, l, s) ==
  IF l \in DOMAIN m
  THEN LET b == Remove(m[l], s)
       IN IF DOMAIN b = {} THEN Remove(m, l) ELSE Insert(m, l, b)
  ELSE m

\* LobbyWebSocketManager::kick_player, lines 297-298: get_mut(&lobby_id) and
\* lobby.remove(player_session_id); the bucket is kept as it is left.
KickRemoveMap(m, l, s) ==
  IF l \in DOMAIN m THEN Insert(m, l, Remove(m[l], s)) ELSE m

\* AdminWebSocketManager::subscribe_to_lobby on the Vec<i32>.
Contains(v, l) == \E i \in 1..Len(v) : v[i] = l
\* Mutant of SubscribeVec: push without the contains test.
SubscribeVecPush(v, l) == Append(v, l)
SubscribeVec(v, l) == IF Contains(v, l) THEN v ELSE Append(v, l)
\* Mutant of UnsubscribeVec: when the lobby is not in the list, the oldest
\* subscription is dropped.
UnsubscribeVecPop(v, l) ==
  IF Contains(v, l) \/ v = <<>> THEN SelectSeq(v, LAMBDA x : x # l) ELSE Tail(v)
\* AdminWebSocketManager::unsubscribe_from_lobby: retain(|&id| id != lobby_id).
UnsubscribeVec(v, l) == SelectSeq(v, LAMBDA x : x # l)
\* Mutant of SubscribeRegistry: entry(web_session_id).or_insert, a connection
\* is created for an unknown session.
SubscribeRegistryEntry(m, w) ==
  IF w \in DOMAIN m THEN m ELSE Insert(m, w, CHOOSE a \in ASocks : AWeb(a) = w)
\* The admin registry after subscribe_to_lobby / unsubscribe_from_lobby looked
\* up web_session_id: connections.get(..) under the read lock inserts nothing.
SubscribeRegistry(m, w) == m

\* Mutant of LookupSink: some sink of the lobby's bucket, whatever its key.
LookupSinkAnyOfLobby(m, l, s) ==
  IF l \in DOMAIN m /\ DOMAIN m[l] # {}
  THEN m[l][CHOOSE x \in DOMAIN m[l] : TRUE] ELSE NoSock

\* send_to_player, lines 230-231: connections.get(&lobby_id) and
\* lobby.get(player_session_id).
LookupSink(m, l, s) == IF HasKey(m, l, s) THEN m[l][s] ELSE NoSock

\* The sinks a lobby's bucket holds.
BucketSinks(m, l) ==
  IF l \in DOMAIN m THEN {m[l][s] : s \in DOMAIN m[l]} ELSE {}
\* Mutant of AdminConns: connections that were removed are still visited.
AdminConnsStale(m) == {m[w] : w \in DOMAIN m} \cup {a \in ASocks : subs[a] # <<>>}
\* The admin connections registered.
AdminConns(m) == {m[w] : w \in DOMAIN m}

\* ------------------------------------------------------------------- Init
NoCall == [op |-> "none", lobby |-> 0, sess |-> "", ev |-> <<>>, json |-> TRUE,
           cur |-> NoSock, todo |-> {}, scan |-> {}, recips |-> <<>>]

\* No control message is being handled.  res and lobby keep what the last
\* subscribe_to_lobby / unsubscribe_from_lobby call of the socket did.
NoMsg == [kind |-> "", lobby |-> 0, cur |-> NoSock, res |-> ""]
\* The call returned having done res for lobby l.
Handled(l, res) == [NoMsg EXCEPT !.lobby = l, !.res = res]
\* What the socket's task did so far, in order: for each text message its
\* receive loop read, "ignored" when it did not parse and else what the call
\* did; for its disconnect, "absent" when there was no entry to remove.
NoLog == <<>>

\* A row of the player table (database/player.rs): the lobby, the session id,
\* the name and the team (0 for None).
PlayerRow(l, s, n, tm) == [lobby |-> l, sess |-> s, name |-> n, team |-> tm]
\* The player rows of the entity store: every key the sockets stand for has
\* joined its lobby.
PlayerRows == {PlayerRow(k[1], k[2], k[2], 0) : k \in Lobbies \X Sessions}
\* The entity store with these lobby, player and team tables.
Store(ls, ps, ts) == [lobbies |-> ls, players |-> ps, teams |-> ts]
\* The table holds a row of the player of lobby l with session id s.
HasRow(ps, l, s) == \E r \in ps : r.lobby = l /\ r.sess = s

\* A route handler task that serves no request.
\* op is the route, pc where its handler stands, res the status it answered
\* (0 while it runs); lobby, name, sess, team and n are the request's
\* arguments and what the handler read; rows the players create_teams read,
\* list these shuffled,
\* made the teams it inserted, i its loop index; sent counts the calls of
\* broadcast_to_lobby, ev is the last event built, db0 the store at entry.
NoRoute == [op |-> "none", pc |-> "none", res |-> 0, lobby |-> 0, name |-> "",
            sess |-> "", team |-> 0, old |-> 0, n |-> 0, rows |-> {},
            list |-> <<>>,
            made |-> <<>>, i |-> 0, sent |-> 0, ev |-> <<>>,
            db0 |-> Store({}, {}, {})]

\* The managers and the socket tasks after construction.
InitWs(active, msgs, ops) ==
  /\ pc = [t \in Tasks |-> IF t \in Reqs THEN "idle"
                           ELSE IF t \notin active THEN "off"
                           ELSE IF t \in PSocks THEN "p_init" ELSE "a_init"]
  /\ lk = [l \in LockIds |-> FreeLock]
  /\ players = EmptyMap
  /\ admins = EmptyMap
  /\ subs = [a \in ASocks |-> <<>>]
  /\ closed = {}
  /\ received = [s \in Socks |-> <<>>]
  /\ call = [t \in Reqs |-> NoCall]
  /\ hmsg = [a \in ASocks |-> NoMsg]
  /\ opsLeft = [t \in Reqs |-> IF t = "r1" THEN ops ELSE 0]
  /\ msgsLeft = msgs
  /\ log = [s \in Socks |-> NoLog]
  /\ att = [t \in Reqs |-> [s \in Socks |-> 0]]
  /\ fails = [t \in Reqs |-> {}]
  /\ dirty = [t \in Reqs |-> FALSE]
  /\ lastOp = [k \in Lobbies \X Sessions |-> "none"]

InitOps(active, msgs, ops) ==
  /\ InitWs(active, msgs, ops)
  /\ store = Store(Lobbies, PlayerRows, {})
  /\ rq = [t \in Reqs |-> NoRoute]

InitMsgs(active, msgs) == InitOps(active, msgs, MaxOps)

InitWith(active) == InitMsgs(active, [a \in ASocks |-> MaxMsgs])

\* Two players of one lobby and an admin.
Init == InitWith({"p1", "p2", "a1"})
\* Players of two lobbies and an admin.
InitLobbies == InitWith({"p1", "p3", "a1"})
\* A player and two admins.
InitAdmins == InitWith({"p1", "a1", "a2"})
\* Two sockets of one key and an admin.
InitDup == InitWith({"p1", "p4", "a1"})
\* A player and two sockets of one admin session.
InitSess == InitWith({"p1", "a1", "a3"})

\* ------------------------------------------------------- waiting on a lock
\* The lock and mode the task's next .await asks for.
Want(t) ==
  CASE pc[t] \in {"p_init", "pd_lock", "k_lock"} -> <<PLock, "w">>
    [] pc[t] \in {"s_lock", "b_lock"} -> <<PLock, "r">>
    [] pc[t] \in {"a_init", "ad_lock"} -> <<ALock, "w">>
    [] pc[t] \in {"ac_len", "ad_len", "as_lock", "ab_lock"} -> <<ALock, "r">>
    [] pc[t] \in {"s_sink", "k_sink", "b_sink", "ab_sink"} ->
         <<SinkLock(call[t].cur), "w">>
    [] pc[t] = "ab_connr" -> <<ConnLock(call[t].cur), "r">>
    [] pc[t] = "ab_connw" -> <<ConnLock(call[t].cur), "w">>
    [] pc[t] = "as_connw" -> <<ConnLock(hmsg[t].cur), "w">>
    [] OTHER -> <<NoLock, "">>

\* The .await returns the guard.
Granted(t) == Want(t)[1] # NoLock /\ CanTake(lk, Want(t)[1], t, Want(t)[2])
\* The lock state with the guard the task asked for taken.
Got(t) == Take(lk, Want(t)[1], t, Want(t)[2])
\* Mutant of Passed: the guard taken within the segment is kept.
PassedHolds(t) == Got(t)
\* The guard taken and dropped within the segment.
Passed(t) == IF Want(t)[2] = "r" THEN RelR(Got(t), Want(t)[1], t)
             ELSE RelW(Got(t), Want(t)[1], t)

\* The lock is not available at once: the task joins the lock's wait queue.
Enqueue(t) ==
  /\ Want(t)[1] # NoLock
  /\ ~(Compatible(lk, Want(t)[1], Want(t)[2]) /\ lk[Want(t)[1]].q = <<>>)
  /\ ~Queued(lk, Want(t)[1], t)
  /\ lk' = [lk EXCEPT ![Want(t)[1]].q = Append(@, <<t, Want(t)[2]>>)]
  /\ UNCHANGED <<pc, players, admins, subs, closed, received, call, hmsg,
                 opsLeft, msgsLeft, att, fails, dirty, lastOp, log, store,
                 rq>>

\* A registry changed since the calls that are in progress, or returned last,
\* were entered.
Touch(changed) ==
  dirty' = [t \in Reqs |-> dirty[t] \/ (changed /\ call[t].op # "none")]

\* ---------------------------------------------------- player socket tasks
\* lobby_websocket_connection calls LobbyWebSocketManager::connect.
PConnect(p) ==
  /\ pc[p] = "p_init"
  /\ Granted(p)
  /\ lk' = Passed(p)
  /\ players' = ConnectMap(players, PLobby(p), PSess(p), p)
  /\ lastOp' = [lastOp EXCEPT ![<<PLobby(p), PSess(p)>>] = "connect"]
  /\ Touch(players' # players)
  /\ pc' = [pc EXCEPT ![p] = "open"]
  /\ UNCHANGED <<admins, subs, closed, received, call, hmsg, opsLeft,
                 msgsLeft, att, fails, log, store, rq>>

\* lobby_websocket_connection: the receive loop ends (close frame, transport
\* error, end of stream).
PRecvEnd(p) ==
  /\ pc[p] = "open"
  /\ pc' = [pc EXCEPT ![p] = "pd_lock"]
  /\ UNCHANGED <<lk, players, admins, subs, closed, received, call, hmsg,
                 opsLeft, msgsLeft, att, fails, dirty, lastOp, log, store,
                 rq>>

\* LobbyWebSocketManager::disconnect
PDisconnect(p) ==
  /\ pc[p] = "pd_lock"
  /\ Granted(p)
  /\ lk' = Passed(p)
  /\ players' = DisconnectMap(players, PLobby(p), PSess(p))
  /\ log' = IF HasKey(players, PLobby(p), PSess(p)) THEN log
            ELSE [log EXCEPT ![p] = Append(@, "absent")]
  /\ lastOp' = [lastOp EXCEPT ![<<PLobby(p), PSess(p)>>] = "disconnect"]
  /\ Touch(players' # players)
  /\ pc' = [pc EXCEPT ![p] = "closed"]
  /\ UNCHANGED <<admins, subs, closed, received, call, hmsg, opsLeft,
                 msgsLeft, att, fails, store, rq>>

\* ----------------------------------------------------- admin socket tasks
\* Mutant of NewSubscriptions: the new connection takes over the list of the
\* connection it replaces.
NewSubscriptionsInherited(m, w, v) == IF w \in DOMAIN m THEN v[m[w]] ELSE <<>>
\* subscribed_lobbies of the AdminConnection that connect builds: Vec::new(),
\* whatever the registry m holds for session w.
NewSubscriptions(m, w, v) == <<>>

\* AdminWebSocketManager::connect: a new AdminConnection with no
\* subscriptions is inserted under the write lock.
AConnect(a) ==
  /\ pc[a] = "a_init"
  /\ Granted(a)
  /\ lk' = Passed(a)
  /\ admins' = Insert(admins, AWeb(a), a)
  /\ subs' = [subs EXCEPT ![a] = NewSubscriptions(admins, AWeb(a), subs)]
  /\ Touch(admins' # admins)
  /\ pc' = [pc EXCEPT ![a] = "ac_len"]
  /\ UNCHANGED <<players, closed, received, call, hmsg, opsLeft, msgsLeft,
                 att, fails, lastOp, log, store, rq>>

\* connect and disconnect: self.connections.read().await.len() for the log.
ALen(a) ==
  /\ pc[a] \in {"ac_len", "ad_len"}
  /\ Granted(a)
  /\ lk' = Passed(a)
  /\ pc' = [pc EXCEPT ![a] = IF pc[a] = "ac_len" THEN "open" ELSE "closed"]
  /\ UNCHANGED <<players, admins, subs, closed, received, call, hmsg,
                 opsLeft, msgsLeft, att, fails, dirty, lastOp, log, store,
                 rq>>

\* admin_websocket_connection: a text message that parses as an AdminMessage;
\* handle_message dispatches it.
ARecvControl(a) ==
  /\ pc[a] = "open"
  /\ msgsLeft[a] > 0
  /\ \E kind \in {"subscribe_lobby", "unsubscribe_lobby"}, l \in Lobbies :
       hmsg' = [hmsg EXCEPT ![a] = [kind |-> kind, lobby |-> l,
                                       cur |-> NoSock, res |-> ""]]
  /\ msgsLeft' = [msgsLeft EXCEPT ![a] = @ - 1]
  /\ pc' = [pc EXCEPT ![a] = "as_lock"]
  /\ UNCHANGED <<lk, players, admins, subs, closed, received, call, opsLeft,
                 att, fails, dirty, lastOp, log, store, rq>>

\* Mutant of AfterParseError: a message that does not parse ends the loop.
AfterParseErrorBreak == "ad_lock"
\* Where the receive loop goes from the Err arm of from_str: the warning is
\* logged and the loop reads the next message.
AfterParseError == "open"

\* admin_websocket_connection: a text message that does not parse is logged.
ARecvMalformed(a) ==
  /\ pc[a] = "open"
  /\ msgsLeft[a] > 0
  /\ msgsLeft' = [msgsLeft EXCEPT ![a] = @ - 1]
  /\ log' = [log EXCEPT ![a] = Append(@, "ignored")]
  /\ pc' = [pc EXCEPT ![a] = AfterParseError]
  /\ UNCHANGED <<lk, players, admins, subs, closed, received, call, hmsg,
                 opsLeft, att, fails, dirty, lastOp, store, rq>>

\* admin_websocket_connection: the receive loop ends.
ARecvEnd(a) ==
  /\ pc[a] = "open"
  /\ pc' = [pc EXCEPT ![a] = "ad_lock"]
  /\ UNCHANGED <<lk, players, admins, subs, closed, received, call, hmsg,
                 opsLeft, msgsLeft, att, fails, dirty, lastOp, log, store,
                 rq>>

\* subscribe_to_lobby / unsubscribe_from_lobby: the registry's read lock and
\* connections.get(web_session_id).
ASubLock(a) ==
  /\ pc[a] = "as_lock"
  /\ Granted(a)
  /\ IF AWeb(a) \in DOMAIN admins
     THEN /\ lk' = Got(a)
          /\ hmsg' = [hmsg EXCEPT ![a].cur = admins[AWeb(a)]]
          /\ pc' = [pc EXCEPT ![a] = "as_connw"]
     ELSE /\ lk' = Passed(a)
          /\ hmsg' = [hmsg EXCEPT ![a] = Handled(hmsg[a].lobby, "unknown")]
          /\ pc' = [pc EXCEPT ![a] = "open"]
  /\ log' = IF AWeb(a) \in DOMAIN admins THEN log
            ELSE [log EXCEPT ![a] = Append(@, "unknown")]
  /\ admins' = SubscribeRegistry(admins, AWeb(a))
  /\ Touch(admins' # admins)
  /\ UNCHANGED <<players, subs, closed, received, call, opsLeft,
                 msgsLeft, att, fails, lastOp, store, rq>>

\* subscribe_to_lobby / unsubscribe_from_lobby: the connection's write lock,
\* the change of subscribed_lobbies, both guards dropped.
ASubApply(a) ==
  /\ pc[a] = "as_connw"
  /\ Granted(a)
  /\ lk' = RelR(Passed(a), ALock, a)
  /\ subs' = [subs EXCEPT ![hmsg[a].cur] =
                IF hmsg[a].kind = "subscribe_lobby"
                THEN SubscribeVec(@, hmsg[a].lobby)
                ELSE UnsubscribeVec(@, hmsg[a].lobby)]
  /\ hmsg' = [hmsg EXCEPT ![a] =
                Handled(hmsg[a].lobby,
                        IF hmsg[a].kind = "subscribe_lobby"
                        THEN IF Contains(subs[hmsg[a].cur], hmsg[a].lobby)
                             THEN "kept" ELSE "added"
                        ELSE IF Contains(subs[hmsg[a].cur], hmsg[a].lobby)
                             THEN "removed" ELSE "absent")]
  /\ log' = [log EXCEPT ![a] = Append(@, hmsg'[a].res)]
  /\ Touch(subs' # subs)
  /\ pc' = [pc EXCEPT ![a] = "open"]
  /\ UNCHANGED <<players, admins, closed, received, call, opsLeft,
                 msgsLeft, att, fails, lastOp, store, rq>>

\* AdminWebSocketManager::disconnect
ADisconnect(a) ==
  /\ pc[a] = "ad_lock"
  /\ Granted(a)
  /\ lk' = Passed(a)
  /\ admins' = Remove(admins, AWeb(a))
  /\ log' = IF AWeb(a) \in DOMAIN admins THEN log
            ELSE [log EXCEPT ![a] = Append(@, "absent")]
  /\ Touch(admins' # admins)
  /\ pc' = [pc EXCEPT ![a] = "ad_len"]
  /\ UNCHANGED <<players, subs, closed, received, call, hmsg, opsLeft,
                 msgsLeft, att, fails, lastOp, store, rq>>

\* ------------------------------------------------------------ the sends
\* SinkExt::send on a sink: a closed sink refuses; an open one delivers or
\* fails with a transport error.
SendOutcomes(s) == IF s \in closed THEN {FALSE} ELSE BOOLEAN

\* Mutant of Deliver: the message overtakes what the peer already got.
DeliverFirst(got, ev) == <<ev>> \o got
\* What the peer of a sink has received once a send on it succeeded: the
\* socket delivers in the order of the sends.
Deliver(got, ev) == Append(got, ev)

\* One send of the call's event to sink s, delivered or not.
SendTo(t, s, ok) ==
  /\ received' = IF ok THEN [received EXCEPT ![s] = Deliver(@, call[t].ev)]
                 ELSE received
  /\ att' = [att EXCEPT ![t][s] = @ + 1]
  /\ fails' = IF ok THEN fails ELSE [fails EXCEPT ![t] = @ \cup {s}]

\* Mutant of RestAfterSend: a failed send ends the loop.
RestAfterSendAbort(todo, ok) == IF ok THEN todo ELSE {}
\* Mutant of AdminRestAfterSend: a failed send ends the loop.
AdminRestAfterSendAbort(rest, ok) == IF ok THEN rest ELSE <<>>
\* Mutant of PlayersAfterSend: a sink whose send failed is dropped.
PlayersAfterSendPrune(m, l, sink, ok) ==
  IF ok \/ l \notin DOMAIN m THEN m
  ELSE Insert(m, l, [s \in {x \in DOMAIN m[l] : m[l][x] # sink} |-> m[l][s]])
\* Mutant of BroadcastBucket: the sinks of every bucket.
BroadcastBucketAll(m, l) == UNION {BucketSinks(m, x) : x \in DOMAIN m}

\* The recipients a player loop still visits after a send: the Err arm only
\* logs (lines 268-274).
RestAfterSend(todo, ok) == todo
\* The recipients the admin loop still visits after a send (lines 129-135).
AdminRestAfterSend(rest, ok) == rest
\* The player registry after a send: the Err arm only logs.
PlayersAfterSend(m, l, sink, ok) == m
\* The admin registry after a send: the Err arm only logs.
AdminsAfterSend(m, a, ok) == m
\* Mutant of IsSubscribed: every connection is a recipient.
IsSubscribedAlways(v, l) == TRUE
\* The filter of the admin broadcast: subscribed_lobbies.contains(&lobby_id).
IsSubscribed(v, l) == Contains(v, l)
\* The bucket the player broadcast iterates: connections.get(&lobby_id).
BroadcastBucket(m, l) == BucketSinks(m, l)
\* Mutant of AfterPlayers: the admin broadcast is entered only when the lobby
\* had players and every send to them succeeded; else the call returns.
AfterPlayersOnSuccess(found, failed) ==
  IF found /\ ~failed THEN "ab_lock" ELSE "idle"
\* Where broadcast_to_lobby goes after the player part: the admin broadcast is
\* called whether or not a bucket was found and whatever the sends returned.
AfterPlayers(found, failed) == "ab_lock"
\* Mutant of BroadcastRegistry: entry(lobby_id).or_default(), a bucket is
\* created for a lobby that has none.
BroadcastRegistryEntry(m, l) ==
  IF l \in DOMAIN m THEN m ELSE Insert(m, l, EmptyMap)
\* The player registry after the broadcast looked the lobby up: get under
\* the read guard inserts nothing.
BroadcastRegistry(m, l) == m

\* ------------------------------------------------------- request tasks
\* serde_json::to_string(event) of the generic event: Ok or Err.
SerializeOutcomes == BOOLEAN
\* Mutant of AfterSerialize: the broadcast goes on whatever to_string returned.
AfterSerializeGoesOn(ok) == "b_lock"
\* Where broadcast_to_lobby goes from the match on to_string: on to the
\* registry's read lock, or, from the Err arm, straight to its return.
AfterSerialize(ok) == IF ok THEN "b_lock" ELSE "idle"

\* A route handler calls broadcast_to_lobby(lobby_id, &event): the event is
\* serialized, and the call returns at once when that fails.
StartBroadcast(t) ==
  /\ pc[t] = "idle"
  /\ opsLeft[t] > 0
  /\ \E l \in Lobbies, ok \in SerializeOutcomes :
       /\ call' = [call EXCEPT ![t] = [NoCall EXCEPT !.op = "bcast", !.lobby = l,
                                         !.ev = JoinedLobbyEvent(l, NewSessionId(opsLeft[t])),
                                         !.json = ok]]
       /\ pc' = [pc EXCEPT ![t] = AfterSerialize(ok)]
  /\ opsLeft' = [opsLeft EXCEPT ![t] = @ - 1]
  /\ att' = [att EXCEPT ![t] = [s \in Socks |-> 0]]
  /\ fails' = [fails EXCEPT ![t] = {}]
  /\ dirty' = [dirty EXCEPT ![t] = FALSE]
  /\ UNCHANGED <<lk, players, admins, subs, closed, received, hmsg, msgsLeft,
                 lastOp, log, store, rq>>

\* The kick route handler finds the player's row (else it answers 404) and
\* calls kick_player(lobby_id, player_session_id): the event is built and
\* send_to_player is entered.
StartKick(t) ==
  /\ pc[t] = "idle"
  /\ opsLeft[t] > 0
  /\ \E l \in Lobbies, s \in Sessions :
       /\ HasRow(store.players, l, s)
       /\ call' = [call EXCEPT ![t] = [NoCall EXCEPT !.op = "kick", !.lobby = l,
                                      !.sess = s, !.ev = PlayerKickedEvent(l, s)]]
  /\ opsLeft' = [opsLeft EXCEPT ![t] = @ - 1]
  /\ att' = [att EXCEPT ![t] = [s \in Socks |-> 0]]
  /\ fails' = [fails EXCEPT ![t] = {}]
  /\ dirty' = [dirty EXCEPT ![t] = FALSE]
  /\ pc' = [pc EXCEPT ![t] = "s_lock"]
  /\ UNCHANGED <<lk, players, admins, subs, closed, received, hmsg, msgsLeft,
                 lastOp, log, store, rq>>

\* send_to_player: the registry's read lock, then the lookup of the key.
SendToPlayerLock(t) ==
  /\ pc[t] = "s_lock"
  /\ Granted(t)
  /\ IF LookupSink(players, call[t].lobby, call[t].sess) # NoSock
     THEN /\ lk' = Got(t)
          /\ call' = [call EXCEPT ![t].cur =
                        LookupSink(players, call[t].lobby, call[t].sess)]
          /\ pc' = [pc EXCEPT ![t] = "s_sink"]
     ELSE /\ lk' = Passed(t)
          /\ call' = call
          /\ pc' = [pc EXCEPT ![t] = "k_lock"]
  /\ UNCHANGED <<players, admins, subs, closed, received, hmsg, opsLeft,
                 msgsLeft, att, fails, dirty, lastOp, log, store, rq>>

\* sender.write().await on the sink at hand, in send_to_player, kick_player and
\* both broadcasts.
SinkAcquire(t) ==
  /\ pc[t] \in {"s_sink", "k_sink", "b_sink", "ab_sink"}
  /\ Granted(t)
  /\ lk' = Got(t)
  /\ pc' = [pc EXCEPT ![t] = CASE pc[t] = "s_sink" -> "s_send"
                               [] pc[t] = "k_sink" -> "k_close"
                               [] pc[t] = "b_sink" -> "b_send"
                               [] OTHER -> "ab_send"]
  /\ UNCHANGED <<players, admins, subs, closed, received, call, hmsg, opsLeft,
                 msgsLeft, att, fails, dirty, lastOp, log, store, rq>>

\* send_to_player: the send; the sink's guard and the registry's read guard are
\* dropped and kick_player goes on to the write lock.
SendToPlayerSend(t) ==
  /\ pc[t] = "s_send"
  /\ \E ok \in SendOutcomes(call[t].cur) :
       /\ SendTo(t, call[t].cur, ok)
       /\ players' = PlayersAfterSend(players, call[t].lobby, call[t].cur, ok)
  /\ lk' = RelR(RelW(lk, SinkLock(call[t].cur), t), PLock, t)
  /\ Touch(players' # players)
  /\ pc' = [pc EXCEPT ![t] = "k_lock"]
  /\ UNCHANGED <<admins, subs, closed, call, hmsg, opsLeft, msgsLeft, lastOp,
                 log, store, rq>>

\* kick_player: the registry's write lock (its guard lives to the end of the
\* function), get_mut and remove.
KickRemove(t) ==
  /\ pc[t] = "k_lock"
  /\ Granted(t)
  /\ lk' = Got(t)
  /\ players' = KickRemoveMap(players, call[t].lobby, call[t].sess)
  /\ IF HasKey(players, call[t].lobby, call[t].sess)
     THEN /\ call' = [call EXCEPT ![t].cur = players[call[t].lobby][call[t].sess]]
          /\ lastOp' = [lastOp EXCEPT ![<<call[t].lobby, call[t].sess>>] = "kick"]
          /\ pc' = [pc EXCEPT ![t] = "k_sink"]
     ELSE /\ call' = call
          /\ lastOp' = lastOp
          /\ pc' = [pc EXCEPT ![t] = "b_lock"]
  /\ dirty' = [u \in Reqs |-> dirty[u] \/ (u # t /\ players' # players
                                             /\ call[u].op # "none")]
  /\ UNCHANGED <<admins, subs, closed, received, hmsg, opsLeft, msgsLeft,
                 att, fails, log, store, rq>>

\* kick_player: sender.close().await, errors ignored; the sink's guard is
\* dropped and broadcast_to_lobby is entered.
KickClose(t) ==
  /\ pc[t] = "k_close"
  /\ closed' = closed \cup {call[t].cur}
  /\ lk' = RelW(lk, SinkLock(call[t].cur), t)
  /\ pc' = [pc EXCEPT ![t] = "b_lock"]
  /\ UNCHANGED <<players, admins, subs, received, call, hmsg, opsLeft,
                 msgsLeft, att, fails, dirty, lastOp, log, store, rq>>

\* The entity store once the manager's call c returned to its route handler:
\* the kick route deletes the player's row after kick_player; the routes that
\* call broadcast_to_lobby have written the store before the call.
StoreAfterReturn(st, c) ==
  IF c.op = "kick"
  THEN [st EXCEPT !.players = {r \in @ : ~(r.lobby = c.lobby /\ r.sess = c.sess)}]
  ELSE st

\* The guards a returning call drops: broadcast_to_lobby its read guard on the
\* player registry, and kick_player, when it is the caller, its write guard.
Returned(L, t) ==
  IF call[t].op = "kick" THEN RelW(RelR(L, PLock, t), PLock, t)
  ELSE RelR(L, PLock, t)

\* LobbyWebSocketManager::broadcast_to_lobby: the registry's read lock (its
\* guard lives to the end of the function) and connections.get(&lobby_id); the
\* loop starts at some entry of the bucket.
BroadcastLock(t) ==
  /\ pc[t] = "b_lock"
  /\ Granted(t)
  /\ lk' = Got(t)
  /\ LET S == BroadcastBucket(players, call[t].lobby)
     IN IF S = {}
        THEN /\ call' = call
             /\ pc' = [pc EXCEPT ![t] = AfterPlayers(FALSE, FALSE)]
        ELSE /\ \E n \in S :
                  call' = [call EXCEPT ![t].cur = n, ![t].todo = S \ {n}]
             /\ pc' = [pc EXCEPT ![t] = "b_sink"]
  /\ players' = BroadcastRegistry(players, call[t].lobby)
  /\ UNCHANGED <<admins, subs, closed, received, hmsg, opsLeft,
                 msgsLeft, att, fails, dirty, lastOp, log, store, rq>>

\* LobbyWebSocketManager::broadcast_to_lobby: one send of the loop; the sink's
\* guard is dropped and the loop goes on, or the admin broadcast is entered.
BroadcastSend(t) ==
  /\ pc[t] = "b_send"
  /\ lk' = RelW(lk, SinkLock(call[t].cur), t)
  /\ \E ok \in SendOutcomes(call[t].cur) :
       /\ SendTo(t, call[t].cur, ok)
       /\ players' = PlayersAfterSend(players, call[t].lobby, call[t].cur, ok)
       /\ LET rest == RestAfterSend(call[t].todo, ok)
          IN IF rest = {}
             THEN /\ call' = [call EXCEPT ![t].cur = NoSock, ![t].todo = {}]
                  /\ pc' = [pc EXCEPT ![t] =
                              AfterPlayers(TRUE, fails'[t] # {})]
             ELSE /\ \E n \in rest :
                       call' = [call EXCEPT ![t].cur = n, ![t].todo = rest \ {n}]
                  /\ pc' = [pc EXCEPT ![t] = "b_sink"]
  /\ Touch(players' # players)
  /\ UNCHANGED <<admins, subs, closed, hmsg, opsLeft, msgsLeft, lastOp, log, store, rq>>

\* AdminWebSocketManager::broadcast_to_lobby: the admin registry's read lock;
\* the scan starts at some connection.
AdminBroadcastLock(t) ==
  /\ pc[t] = "ab_lock"
  /\ Granted(t)
  /\ LET C == AdminConns(admins)
     IN IF C = {}
        THEN /\ lk' = Returned(Passed(t), t)
             /\ call' = call
             /\ pc' = [pc EXCEPT ![t] = "idle"]
        ELSE /\ lk' = Got(t)
             /\ \E n \in C :
                  call' = [call EXCEPT ![t].cur = n, ![t].scan = C \ {n},
                                       ![t].recips = <<>>]
             /\ pc' = [pc EXCEPT ![t] = "ab_connr"]
  /\ store' = IF pc'[t] = "idle" THEN StoreAfterReturn(store, call[t])
               ELSE store
  /\ UNCHANGED <<players, admins, subs, closed, received, hmsg, opsLeft,
                 msgsLeft, att, fails, dirty, lastOp, log, rq>>

\* AdminWebSocketManager::broadcast_to_lobby: conn.read().await on one
\* connection of the scan and the test of its subscriptions; after the last
\* one the registry's guard is dropped and the sends start.
AdminBroadcastScan(t) ==
  /\ pc[t] = "ab_connr"
  /\ Granted(t)
  /\ LET c == call[t]
         rec == IF IsSubscribed(subs[c.cur], c.lobby)
                THEN Append(c.recips, c.cur) ELSE c.recips
     IN IF c.scan # {}
        THEN /\ lk' = Passed(t)
             /\ \E n \in c.scan :
                  call' = [call EXCEPT ![t].cur = n, ![t].scan = c.scan \ {n},
                                       ![t].recips = rec]
             /\ pc' = [pc EXCEPT ![t] = "ab_connr"]
        ELSE IF rec = <<>>
        THEN /\ lk' = Returned(RelR(Passed(t), ALock, t), t)
             /\ call' = [call EXCEPT ![t].cur = NoSock, ![t].recips = <<>>]
             /\ pc' = [pc EXCEPT ![t] = "idle"]
        ELSE /\ lk' = RelR(Passed(t), ALock, t)
             /\ call' = [call EXCEPT ![t].cur = Head(rec), ![t].recips = Tail(rec)]
             /\ pc' = [pc EXCEPT ![t] = "ab_connw"]
  /\ store' = IF pc'[t] = "idle" THEN StoreAfterReturn(store, call[t])
               ELSE store
  /\ UNCHANGED <<players, admins, subs, closed, received, hmsg, opsLeft,
                 msgsLeft, att, fails, dirty, lastOp, log, rq>>

\* AdminWebSocketManager::broadcast_to_lobby: conn.write().await on the next
\* recipient.
AdminBroadcastConn(t) ==
  /\ pc[t] = "ab_connw"
  /\ Granted(t)
  /\ lk' = Got(t)
  /\ pc' = [pc EXCEPT ![t] = "ab_sink"]
  /\ UNCHANGED <<players, admins, subs, closed, received, call, hmsg, opsLeft,
                 msgsLeft, att, fails, dirty, lastOp, log, store, rq>>

\* AdminWebSocketManager::broadcast_to_lobby: one send; both guards are
\* dropped; after the last recipient the calls return.
AdminBroadcastSend(t) ==
  /\ pc[t] = "ab_send"
  /\ \E ok \in SendOutcomes(call[t].cur) :
       /\ SendTo(t, call[t].cur, ok)
       /\ admins' = AdminsAfterSend(admins, call[t].cur, ok)
       /\ LET rest == AdminRestAfterSend(call[t].recips, ok)
              L0 == RelW(RelW(lk, SinkLock(call[t].cur), t),
                         ConnLock(call[t].cur), t)
          IN IF rest = <<>>
             THEN /\ lk' = Returned(L0, t)
                  /\ call' = [call EXCEPT ![t].cur = NoSock, ![t].recips = <<>>]
                  /\ pc' = [pc EXCEPT ![t] = "idle"]
             ELSE /\ lk' = L0
                  /\ call' = [call EXCEPT ![t].cur = Head(rest),
                                          ![t].recips = Tail(rest)]
                  /\ pc' = [pc EXCEPT ![t] = "ab_connw"]
  /\ Touch(admins' # admins)
  /\ store' = IF pc'[t] = "idle" THEN StoreAfterReturn(store, call[t])
               ELSE store
  /\ UNCHANGED <<players, subs, closed, hmsg, opsLeft, msgsLeft, lastOp, log, rq>>

\* ------------------------------------------------------------------- Next
\* What arrives from outside: a socket's receive loop reads a message or ends,
\* a route handler is invoked.
EnvNext ==
  \/ \E p \in PSocks : PRecvEnd(p)
  \/ \E a \in ASocks : ARecvControl(a) \/ ARecvMalformed(a) \/ ARecvEnd(a)
  \/ \E t \in Reqs : StartBroadcast(t) \/ StartKick(t)

\* A pending sender.send(..).await completes.
SendNext ==
  \E t \in Reqs : \/ SendToPlayerSend(t) \/ BroadcastSend(t)
                   \/ AdminBroadcastSend(t)

\* The steps of the tasks that do not wait for a peer: lock acquisitions, the
\* registries' updates, close.
LocalNext ==
  \/ \E t \in Tasks : Enqueue(t)
  \/ \E p \in PSocks : PConnect(p) \/ PDisconnect(p)
  \/ \E a \in ASocks : \/ AConnect(a) \/ ALen(a) \/ ASubLock(a)
                       \/ ASubApply(a) \/ ADisconnect(a)
  \/ \E t \in Reqs : \/ SendToPlayerLock(t) \/ SinkAcquire(t)
                     \/ KickRemove(t) \/ KickClose(t)
                     \/ BroadcastLock(t)
                     \/ AdminBroadcastLock(t) \/ AdminBroadcastScan(t)
                     \/ AdminBroadcastConn(t)

\* The steps of the tasks themselves.
ProgNext == SendNext \/ LocalNext

Next == EnvNext \/ ProgNext

\* The socket tasks alone, no route handler being invoked: what the receive
\* loops read, connect, the control messages' calls, disconnect.
SockNext ==
  \/ \E p \in PSocks : PRecvEnd(p) \/ PConnect(p) \/ PDisconnect(p)
  \/ \E a \in ASocks : \/ ARecvControl(a) \/ ARecvMalformed(a) \/ ARecvEnd(a)
                       \/ AConnect(a) \/ ALen(a) \/ ASubLock(a)
                       \/ ASubApply(a) \/ ADisconnect(a)
  \/ \E s \in Socks : Enqueue(s)

Spec == Init /\ [][Next]_vars
SpecLobbies == InitLobbies /\ [][Next]_vars
SpecAdmins == InitAdmins /\ [][Next]_vars
SpecDup == InitDup /\ [][Next]_vars
SpecSess == InitSess /\ [][Next]_vars
\* The runtime keeps polling the tasks that can run: some task that can take a
\* step takes one.
FairSpec == Spec /\ WF_vars(ProgNext)
\* A player and an admin; the route handler task makes up to MaxSeqOps calls,
\* one after the other.
InitSeq == InitOps({"p1", "a1"}, [a \in ASocks |-> MaxMsgs], MaxSeqOps)
SpecSeq == InitSeq /\ [][Next]_vars
\* Two sockets of one player key and two of one admin session; a1 sends up to
\* MaxLoopMsgs text messages and a3 none.
InitSockets ==
  InitMsgs({"p1", "p4", "a1", "a3"},
           [a \in ASocks |-> IF a = "a1" THEN MaxLoopMsgs ELSE 0])
SpecSockets == InitSockets /\ [][SockNext]_vars

\* ============================================================= properties
\* How often event e was delivered to a peer.
Count(seq, e) == Cardinality({i \in 1..Len(seq) : seq[i] = e})
\* The membership of lobby l in the live registries: the sinks of its bucket
\* and the admin connections subscribed to it.
Members(l) ==
  BucketSinks(players, l)
    \cup {a \in AdminConns(admins) : Contains(subs[a], l)}
\* No task can take a step: with no further input, every task has run as far
\* as it ever will.
Settled == ~ENABLED ProgNext
\* A broadcast_to_lobby call of a route handler, of an event that serialized,
\* has returned, and no registry changed since it was entered.
BroadcastDone(t) ==
  call[t].op = "bcast" /\ call[t].json /\ pc[t] = "idle" /\ ~dirty[t]

C6_NoEmptyBucket == \A l \in DOMAIN players : DOMAIN players[l] # {}

\* C7: a broadcast_to_lobby(L, e) that returned with no registry change in
\* between attempted exactly one send to every player sink of L's bucket and
\* to every admin connection subscribed to L, and none to any other sink.
C7_BroadcastRecipients ==
  \A t \in Reqs :
    BroadcastDone(t) =>
      \A s \in Socks :
        att[t][s] = IF s \in Members(call[t].lobby) THEN 1 ELSE 0

\* C7 witness: a returned broadcast to lobby 1 that sent once to p1 and to the
\* subscribed admin a1 and not to p3, registered in lobby 2.
C7_Witness ==
  /\ BroadcastDone("r1")
  /\ call["r1"].lobby = 1
  /\ HasKey(players, 1, "s1")
  /\ HasKey(players, 2, "s1")
  /\ Contains(subs["a1"], 1)
  /\ att["r1"]["p1"] = 1
  /\ att["r1"]["a1"] = 1
  /\ att["r1"]["p3"] = 0

\* C8: a send of a broadcast that fails does not stop the broadcast: when the
\* call returned with no registry change in between, every member of the lobby
\* was sent the event once, and each one whose own send did not fail received
\* it, whichever sends failed.
C8_FaultIsolation ==
  \A t \in Reqs :
    (BroadcastDone(t) /\ fails[t] # {}) =>
      \A s \in Members(call[t].lobby) :
        /\ att[t][s] = 1
        /\ s \notin fails[t] => Count(received[s], call[t].ev) >= 1

\* C8 witness: a returned broadcast to {p1, a1, a2} whose send to a1 failed,
\* and p1 and a2 received the event.
C8_Witness ==
  /\ BroadcastDone("r1")
  /\ Members(call["r1"].lobby) = {"p1", "a1", "a2"}
  /\ fails["r1"] = {"a1"}
  /\ Count(received["p1"], call["r1"].ev) = 1
  /\ Count(received["a2"], call["r1"].ev) = 1

\* A send of task t failed in this step.
SendFailedStep == \E t \in Reqs : \E s \in Socks : s \in fails'[t] /\ s \notin fails[t]

\* C9: a step in which a send fails changes neither registry: the player
\* registry, the admin registry and every subscription list stay as they are.
C9_SendFailureKeepsRegistries ==
  [][SendFailedStep =>
       players' = players /\ admins' = admins /\ subs' = subs]_vars

\* C9 witness: sends to a player and to an admin failed in a returned
\* broadcast, and both are still registered, the admin with its subscription.
C9_Witness ==
  /\ BroadcastDone("r1")
  /\ call["r1"].lobby = 1
  /\ fails["r1"] = {"p1", "a1"}
  /\ HasKey(players, 1, "s1") /\ players[1]["s1"] = "p1"
  /\ "w1" \in DOMAIN admins /\ admins["w1"] = "a1"
  /\ Contains(subs["a1"], 1)

\* The socket whose sink a kick_player call of task t closed, if any.
KickTargets(t) ==
  {p \in closed : PLobby(p) = call[t].lobby /\ PSess(p) = call[t].sess}
\* Task t's kick_player found its target registered and closed it, and no other
\* task changed a registry since the call was entered.
KickedAlone(t) == call[t].op = "kick" /\ KickTargets(t) # {} /\ ~dirty[t]

\* C1: once a kick_player(L, s) that found s registered has run as far as it
\* goes, every other player connection of L and every admin subscribed to L
\* was sent the player_kicked event exactly once.
C1_KickNotifiesOthers ==
  \A t \in Reqs :
    (Settled /\ KickedAlone(t)) =>
      \A o \in Members(call[t].lobby) : att[t][o] = 1

\* C2: kick_player notifies the target, closes and removes it, and then
\* broadcasts to the rest: once the call has run as far as it goes, the target
\* was sent one event, is closed and out of the bucket, and the broadcast has
\* taken the registry's read lock and enumerated its recipients.
C2_KickOrder ==
  \A t \in Reqs :
    (Settled /\ KickedAlone(t)) =>
      /\ \A p \in KickTargets(t) :
           /\ att[t][p] = 1
           /\ Count(received[p], call[t].ev) <= 1
           /\ p \notin BucketSinks(players, call[t].lobby)
      /\ pc[t] \notin {"k_sink", "k_close", "b_lock"}

\* C3: after a connection was closed (by disconnect or by kick_player), no
\* later call on the player registry is left waiting: once the tasks have run
\* as far as they go, no socket task waits for a lock and every broadcast of a
\* route handler has returned.
C3_CloseBlocksNobody ==
  (Settled /\ (closed # {} \/ \E p \in PSocks : pc[p] = "closed")) =>
    /\ \A u \in Socks : Want(u)[1] = NoLock
    /\ \A t \in Reqs : call[t].op = "bcast" => pc[t] = "idle"

\* C4: every kick_player call returns and has by then released the locks it
\* took on the player registry, for a present and for an absent key.
C4_KickReturns ==
  \A t \in Reqs :
    (Settled /\ call[t].op = "kick") =>
      /\ pc[t] = "idle"
      /\ lk[PLock].w # t
      /\ t \notin lk[PLock].r

\* C10: while a send of the player broadcast is pending (the sink's lock is
\* awaited or held), the task holds no read lock on the player registry.
C10_NoReadLockAcrossSends ==
  \A t \in Reqs : pc[t] \in {"b_sink", "b_send"} => t \notin lk[PLock].r

\* Task t's broadcast waits in the send to sink s, and every task has run as
\* far as it can while that send does not complete.
SendStalled(t, s) ==
  /\ call[t].op = "bcast"
  /\ pc[t] \in {"b_send", "ab_send"}
  /\ call[t].cur = s
  /\ ~ENABLED LocalNext

\* C11: when the send to one recipient of a broadcast does not complete, every
\* other member of the lobby was still sent the event, and no socket task is
\* left waiting for a lock of a registry or of a connection.
C11_SlowRecipientIsolated ==
  \A t \in Reqs : \A s \in Socks :
    (SendStalled(t, s) /\ ~dirty[t]) =>
      /\ \A o \in Members(call[t].lobby) \ {s} : att[t][o] = 1
      /\ \A u \in Socks : Want(u)[1] = NoLock

\* A lock of the admin registry: the map's, or a connection's.
AdminLocks == {ALock} \cup {ConnLock(a) : a \in ASocks}
\* Task t holds lock l.
Holds(t, l) == t \in lk[l].r \/ lk[l].w = t

\* C12: no task holds a lock on the player registry map while it awaits or
\* holds a lock of the admin registry.
C12_RegistriesNotLockedTogether ==
  \A t \in Tasks :
    Holds(t, PLock) =>
      /\ Want(t)[1] \notin AdminLocks
      /\ \A l \in AdminLocks : ~Holds(t, l)

\* Task t's kick_player was called for a key that is not registered, and no
\* other task changed a registry since the call was entered.
KickedAbsent(t) ==
  /\ call[t].op = "kick"
  /\ ~HasKey(players, call[t].lobby, call[t].sess)
  /\ KickTargets(t) = {}
  /\ ~dirty[t]

\* C13: kick_player for a key that is not registered is a no-op: once the call
\* has run as far as it goes it has returned, and it sent the player_kicked
\* event to no player and to no admin connection.
C13_KickAbsentIsNoOp ==
  \A t \in Reqs :
    (Settled /\ KickedAbsent(t)) =>
      /\ pc[t] = "idle"
      /\ \A s \in Socks : att[t][s] = 0 /\ Count(received[s], call[t].ev) = 0

\* Task t takes a step of send_to_player.
SendToPlayerStep(t) ==
  pc[t] \in {"s_lock", "s_sink", "s_send"} /\ pc'[t] # pc[t]
\* Task t's send_to_player returns in this step.
SendToPlayerReturns(t) == pc[t] \in {"s_lock", "s_send"} /\ pc'[t] = "k_lock"

\* C14: no step of send_to_player(L, s, e) changes a registry; when it returns
\* it holds no lock, and, no registry having changed since it was entered, it
\* attempted one send to the sink registered under (L, s) and none to any other
\* sink (none at all when (L, s) is not registered), whether the send failed
\* or not.
C14_SendToPlayerFrame ==
  [][\A t \in Reqs :
       /\ SendToPlayerStep(t) =>
            players' = players /\ admins' = admins /\ subs' = subs
       /\ SendToPlayerReturns(t) =>
            /\ \A l \in LockIds : t \notin lk'[l].r /\ lk'[l].w # t
            /\ ~dirty'[t] =>
                 \A x \in Socks :
                   att'[t][x] =
                     IF /\ HasKey(players, call[t].lobby, call[t].sess)
                        /\ players[call[t].lobby][call[t].sess] = x
                     THEN 1 ELSE 0]_vars

\* C14 witness: send_to_player(1, "s1", e) has returned after its send to p1
\* failed; p1 and p2 are registered as before and p2 was sent nothing.
C14_Witness ==
  /\ pc["r1"] = "k_lock"
  /\ call["r1"].op = "kick" /\ call["r1"].lobby = 1 /\ call["r1"].sess = "s1"
  /\ ~dirty["r1"]
  /\ fails["r1"] = {"p1"}
  /\ att["r1"]["p1"] = 1 /\ att["r1"]["p2"] = 0
  /\ HasKey(players, 1, "s1") /\ players[1]["s1"] = "p1"
  /\ HasKey(players, 1, "s2")

\* The list holds no lobby id twice.
NoDup(v) == \A i, j \in 1..Len(v) : v[i] = v[j] => i = j
\* Socket a's subscribe_to_lobby applies in this step to a connection that is
\* subscribed to the lobby already.
SubscribeAgainStep(a) ==
  /\ pc[a] = "as_connw" /\ pc'[a] = "open"
  /\ hmsg[a].kind = "subscribe_lobby"
  /\ Contains(subs[hmsg[a].cur], hmsg[a].lobby)

\* C15: a subscribe to a lobby the connection is subscribed to already leaves
\* every subscription list as it is, and no step, under any interleaving of
\* the sockets' subscribe and unsubscribe calls, leaves a list that holds a
\* lobby id twice.
C15_SubscribeIdempotent ==
  [][/\ \A c \in ASocks : NoDup(subs'[c])
     /\ \A a \in ASocks : SubscribeAgainStep(a) => subs' = subs]_vars

\* C15 witness: a3 subscribed its session to lobby 1, a1, a socket of the same
\* session, subscribed it to lobby 1 again, and the list is <<1>>.
C15_Witness ==
  /\ "w1" \in DOMAIN admins /\ admins["w1"] = "a3"
  /\ hmsg["a3"].res = "added" /\ hmsg["a3"].lobby = 1
  /\ hmsg["a1"].res = "kept" /\ hmsg["a1"].lobby = 1
  /\ subs["a3"] = <<1>>

\* Socket a takes a step of subscribe_to_lobby or unsubscribe_from_lobby.
SubscribeStep(a) == pc[a] \in {"as_lock", "as_connw"} /\ pc'[a] # pc[a]

\* C16: no step of subscribe_to_lobby or unsubscribe_from_lobby adds or
\* removes an entry of the admin registry, and a call for a session id that
\* is not registered changes no subscription list either.
C16_UnknownSessionNoOp ==
  [][\A a \in ASocks :
       SubscribeStep(a) =>
         /\ admins' = admins
         /\ AWeb(a) \notin DOMAIN admins => subs' = subs]_vars

\* C16 witness: a1's disconnect removed the entry of the session it shares
\* with a3, a3's subscribe then found the session unknown, and the registry
\* is empty.
C16_Witness ==
  /\ pc["a1"] = "closed"
  /\ pc["a3"] = "open"
  /\ hmsg["a3"].res = "unknown"
  /\ DOMAIN admins = {}
  /\ subs["a3"] = <<>>

\* Socket a's unsubscribe_from_lobby applies in this step to a connection that
\* is not subscribed to the lobby.
UnsubscribeAbsentStep(a) ==
  /\ pc[a] = "as_connw" /\ pc'[a] = "open"
  /\ hmsg[a].kind = "unsubscribe_lobby"
  /\ ~Contains(subs[hmsg[a].cur], hmsg[a].lobby)

\* C17: unsubscribing a registered admin from a lobby it is not subscribed to
\* returns and leaves its subscription list, every other admin's list and the
\* registry as they are.
C17_UnsubscribeAbsentNoOp ==
  [][\A a \in ASocks :
       UnsubscribeAbsentStep(a) => subs' = subs /\ admins' = admins]_vars

\* C17 witness: the session is subscribed to lobby 2 (by a1), a3 unsubscribed
\* it from lobby 1, and the list is still <<2>>.
C17_Witness ==
  /\ "w1" \in DOMAIN admins /\ admins["w1"] = "a3"
  /\ hmsg["a1"].res = "added" /\ hmsg["a1"].lobby = 2
  /\ hmsg["a3"].res = "absent" /\ hmsg["a3"].lobby = 1
  /\ subs["a3"] = <<2>>

\* C18: an admin is sent a lobby's events exactly while subscribed: a
\* broadcast to L that returned, no subscription or registry having changed
\* since it was entered, sent the event once to every registered admin
\* connection subscribed to L (received unless that send failed), and sent
\* nothing to a registered admin connection that is not, or no longer,
\* subscribed to L.
C18_AdminReceivesWhileSubscribed ==
  \A t \in Reqs :
    BroadcastDone(t) =>
      \A a \in AdminConns(admins) :
        IF Contains(subs[a], call[t].lobby)
        THEN /\ att[t][a] = 1
             /\ a \notin fails[t] => Count(received[a], call[t].ev) >= 1
        ELSE /\ att[t][a] = 0
             /\ a \notin fails[t]

\* C18 witness: the session was subscribed to lobby 1 (by a1) and unsubscribed
\* from it (by a3); a broadcast to lobby 1 entered after that has returned and
\* sent nothing to the admin connection.
C18_Witness ==
  /\ BroadcastDone("r1") /\ call["r1"].lobby = 1
  /\ "w1" \in DOMAIN admins /\ admins["w1"] = "a3"
  /\ hmsg["a1"].res = "added" /\ hmsg["a1"].lobby = 1
  /\ hmsg["a3"].res = "removed" /\ hmsg["a3"].lobby = 1
  /\ subs["a3"] = <<>>
  /\ att["r1"]["a3"] = 0 /\ received["a3"] = <<>>

\* Admin socket a's disconnect has removed its entry.
AdminGone(a) == pc[a] \in {"ad_len", "closed"}

\* C19: a broadcast to L entered after the disconnect of an admin that was
\* subscribed to L, and returned with no registry change in between, attempted
\* no send to that admin and sent the event once to every player connection
\* of L's bucket (received unless that send failed).
C19_BroadcastAfterAdminDisconnect ==
  \A t \in Reqs : \A a \in ASocks :
    (BroadcastDone(t) /\ AdminGone(a) /\ Contains(subs[a], call[t].lobby)) =>
      /\ att[t][a] = 0
      /\ a \notin fails[t]
      /\ \A p \in BucketSinks(players, call[t].lobby) :
           /\ att[t][p] = 1
           /\ p \notin fails[t] => Count(received[p], call[t].ev) >= 1

\* C19 witness: p1 and p2 are in lobby 1, its only subscriber a1 has
\* disconnected, and a broadcast to lobby 1 reached both players and no admin.
C19_Witness ==
  /\ BroadcastDone("r1") /\ call["r1"].lobby = 1
  /\ pc["a1"] = "closed" /\ subs["a1"] = <<1>> /\ received["a1"] = <<>>
  /\ BucketSinks(players, 1) = {"p1", "p2"}
  /\ Count(received["p1"], call["r1"].ev) = 1
  /\ Count(received["p2"], call["r1"].ev) = 1
  /\ \A a \in ASocks : att["r1"][a] = 0

\* Player socket p's connect inserts its sink in this step.
ConnectStep(p) == pc[p] = "p_init" /\ pc'[p] = "open"
\* Socket p connected, and its key is now registered with another sink.
Replaced(p) ==
  /\ pc[p] \in {"open", "pd_lock"}
  /\ HasKey(players, PLobby(p), PSess(p))
  /\ players[PLobby(p)][PSess(p)] # p

\* C20: a connect leaves its own sink, and no other, registered under its
\* key; the lobby grows by one when the key is new and keeps its size when
\* the key is replaced; and a send_to_player or broadcast entered after the
\* replacement attempts no send to the replaced sink, a returned broadcast
\* having sent once to the new one.
C20_ConnectReplaces ==
  [][/\ \A p \in PSocks :
          ConnectStep(p) =>
            LET l == PLobby(p)
                old == IF l \in DOMAIN players THEN DOMAIN players[l] ELSE {}
            IN /\ players'[l][PSess(p)] = p
               /\ DOMAIN players'[l] = old \cup {PSess(p)}
               /\ Cardinality(DOMAIN players'[l]) =
                    Cardinality(old) + (IF PSess(p) \in old THEN 0 ELSE 1)
               /\ p \notin {players'[l][x] : x \in DOMAIN players'[l] \ {PSess(p)}}
     /\ \A t \in Reqs : \A p \in PSocks :
          (call'[t].op # "none" /\ ~dirty'[t] /\ Replaced(p)') =>
            /\ att'[t][p] = 0
            /\ (BroadcastDone(t)' /\ call'[t].lobby = PLobby(p)) =>
                 att'[t][players'[PLobby(p)][PSess(p)]] = 1]_vars

\* C20 witness: p4 connected under p1's key while p1 was registered; a
\* broadcast to the lobby entered after that reached p4 and attempted nothing
\* to p1, and the lobby holds one connection.
C20_Witness ==
  /\ BroadcastDone("r1") /\ call["r1"].lobby = 1
  /\ pc["p1"] = "open" /\ pc["p4"] = "open"
  /\ DOMAIN players[1] = {"s1"} /\ players[1]["s1"] = "p4"
  /\ att["r1"]["p4"] = 1 /\ Count(received["p4"], call["r1"].ev) = 1
  /\ att["r1"]["p1"] = 0 /\ received["p1"] = <<>>

\* Player socket p's disconnect runs in this step.
PDisconnectStep(p) == pc[p] = "pd_lock" /\ pc'[p] = "closed"
\* Admin socket a's disconnect removes in this step.
ADisconnectStep(a) == pc[a] = "ad_lock" /\ pc'[a] = "ad_len"

BroadcastStep(t) == call[t].op = "bcast" /\ pc[t] # "idle" /\ pc'[t] # pc[t]

\* C22: a broadcast to a lobby that has, since the call was entered, no player
\* connection and no subscribed admin attempts no send, changes neither
\* registry (no bucket is created), and goes through the two lookups to its
\* return.
C22_EmptyBroadcastNoOp ==
  [][\A t \in Reqs :
       (BroadcastStep(t) /\ ~dirty[t] /\ Members(call[t].lobby) = {}) =>
         /\ players' = players /\ admins' = admins /\ subs' = subs
         /\ att' = att /\ fails' = fails /\ received' = received
         /\ pc'[t] \in {"ab_lock", "ab_connr", "idle"}]_vars

\* C22 witness: p1 is in lobby 1 and a1 is subscribed to lobby 1; a broadcast
\* to lobby 2, which has no bucket, has returned with no send attempted.
C22_Witness ==
  /\ BroadcastDone("r1") /\ call["r1"].lobby = 2
  /\ HasKey(players, 1, "s1") /\ 2 \notin DOMAIN players
  /\ "w1" \in DOMAIN admins /\ subs["a1"] = <<1>>
  /\ \A x \in Socks : att["r1"][x] = 0 /\ received[x] = <<>>

\* The admin connections subscribed to lobby l.
SubscribedAdmins(l) == {a \in AdminConns(admins) : Contains(subs[a], l)}

\* C23: the player part and the admin part of a broadcast fail independently:
\* when the call returned (no registry change in between) and the lobby has no
\* player connection, or every send to its players failed, every subscribed
\* admin was still sent the event once and received it unless its own send
\* failed.
C23_AdminPartIndependent ==
  \A t \in Reqs :
    (/\ BroadcastDone(t)
     /\ BucketSinks(players, call[t].lobby) \subseteq fails[t]) =>
      \A a \in SubscribedAdmins(call[t].lobby) :
        /\ att[t][a] = 1
        /\ a \notin fails[t] => Count(received[a], call[t].ev) >= 1

\* C23 witness: a returned broadcast whose sends to both players of the lobby
\* failed, and the subscribed admin received the event.
C23_Witness ==
  /\ BroadcastDone("r1")
  /\ BucketSinks(players, call["r1"].lobby) = {"p1", "p2"}
  /\ fails["r1"] = {"p1", "p2"}
  /\ SubscribedAdmins(call["r1"].lobby) = {"a1"}
  /\ received["p1"] = <<>> /\ received["p2"] = <<>>
  /\ received["a1"] = <<call["r1"].ev>>

\* A returned broadcast to a lobby with no bucket, whose subscribed admin
\* received the event.
NoBucketAdminReceived ==
  /\ BroadcastDone("r1")
  /\ call["r1"].lobby \notin DOMAIN players
  /\ SubscribedAdmins(call["r1"].lobby) = {"a1"}
  /\ received["a1"] = <<call["r1"].ev>>

\* Admin socket a's receive loop reads a text message that does not parse.
MalformedStep(a) == log'[a] = Append(log[a], "ignored")

\* C24: an inbound admin text message that does not parse is ignored: the
\* step changes neither the admin registry nor any subscription list, and the
\* socket's receive loop is still reading afterwards.
C24_MalformedIgnored ==
  [][\A a \in ASocks :
       MalformedStep(a) =>
         /\ admins' = admins /\ subs' = subs /\ players' = players
         /\ pc'[a] = "open"]_vars

\* C24 witness: a1 read a message that did not parse and then a subscribe
\* message, which was applied; a1 is still registered and reading.
C24_Witness ==
  /\ log["a1"] = <<"ignored", "added">>
  /\ pc["a1"] = "open"
  /\ "w1" \in DOMAIN admins /\ admins["w1"] = "a1"
  /\ Len(subs["a1"]) = 1

\* Task t enters broadcast_to_lobby with an event that fails to serialize.
SerializeFailedStep(t) ==
  pc[t] = "idle" /\ call'[t] # call[t] /\ call'[t].op = "bcast" /\ ~call'[t].json

\* C25: a broadcast of an event that fails to serialize is skipped entirely:
\* the call takes no lock, changes no registry, delivers nothing and returns
\* at once; no send is ever attempted for it.
C25_SerializeFailureSkips ==
  [][\A t \in Reqs :
       /\ SerializeFailedStep(t) =>
            /\ players' = players /\ admins' = admins /\ subs' = subs
            /\ received' = received /\ closed' = closed /\ lk' = lk
       /\ (call'[t].op = "bcast" /\ ~call'[t].json) =>
            /\ pc'[t] = "idle"
            /\ \A x \in Socks : att'[t][x] = 0]_vars

\* C25 witness: the lobby has two players and a subscribed admin; a broadcast
\* to it whose event did not serialize has returned, and nobody received
\* anything.
C25_Witness ==
  /\ call["r1"].op = "bcast" /\ ~call["r1"].json /\ pc["r1"] = "idle"
  /\ ~dirty["r1"]
  /\ Members(call["r1"].lobby) = {"p1", "p2", "a1"}
  /\ \A x \in Socks : received[x] = <<>> /\ att["r1"][x] = 0

\* The program points of kick_player from its call of broadcast_to_lobby on.
InBroadcast == {"b_lock", "b_sink", "b_send", "ab_lock", "ab_connr",
                "ab_connw", "ab_sink", "ab_send"}

\* C26: a domain action has written the entity store before it invokes the
\* broadcast: while the kick action is in the player_kicked broadcast, the
\* kicked player's row is no longer in the store.
C26_StoreBeforeBroadcast ==
  \A t \in Reqs :
    (call[t].op = "kick" /\ pc[t] \in InBroadcast) =>
      ~HasRow(store.players, call[t].lobby, call[t].sess)

\* Message e is a lobby event of a route handler's broadcast.
IsRouteEvent(e) == e[1] = "player_joined"
\* Of two lobby events of one route handler task, e was issued before f: the
\* task had more calls left.
IssuedBefore(e, f) == e[3][2] > f[3][2]

\* C27: broadcasts that one caller issues one after the other to one lobby
\* are observed in issue order: whatever a socket received of them, it
\* received the earlier one first (so every send of a broadcast was attempted
\* before the call returned and the next one was issued).
C27_IssueOrder ==
  \A x \in Socks :
    \A i, j \in 1..Len(received[x]) :
      (/\ i < j
       /\ IsRouteEvent(received[x][i]) /\ IsRouteEvent(received[x][j])
       /\ received[x][i][2] = received[x][j][2]) =>
        IssuedBefore(received[x][i], received[x][j])

\* C27 witness: two broadcasts to lobby 1 have returned; the player and the
\* subscribed admin each received both events, the first one first.
C27_Witness ==
  /\ pc["r1"] = "idle" /\ call["r1"].op = "bcast" /\ call["r1"].lobby = 1
  /\ \A x \in {"p1", "a1"} :
       /\ Len(received[x]) = 2
       /\ IsRouteEvent(received[x][1]) /\ IsRouteEvent(received[x][2])
       /\ received[x][1][2] = 1 /\ received[x][2][2] = 1
       /\ IssuedBefore(received[x][1], received[x][2])

\* Socket x is the connection some registry entry holds.
Registered(x) ==
  \/ \E l \in DOMAIN players : \E k \in DOMAIN players[l] : players[l][k] = x
  \/ \E w \in DOMAIN admins : admins[w] = x

\* C28: once a connection's receive loop has ended, its handler's disconnect
\* completes: the connection reaches Closed with no registry entry holding it.
C28_LoopEndLeadsToClosed ==
  \A x \in Socks :
    (pc[x] \in {"pd_lock", "ad_lock"}) ~> (pc[x] = "closed" /\ ~Registered(x))

\* Admin socket a connected, and its session is now registered with another
\* connection.
AdminReplaced(a) ==
  /\ pc[a] \in {"open", "ad_lock"}
  /\ AWeb(a) \in DOMAIN admins
  /\ admins[AWeb(a)] # a

\* C29: the cleanup of an older connection leaves a newer connection of the
\* same key registered: a disconnect by a socket whose key is by now
\* registered with another connection does not remove that entry.
C29_CleanupSparesNewer ==
  [][/\ \A p \in PSocks :
          (PDisconnectStep(p) /\ Replaced(p)) =>
            /\ HasKey(players', PLobby(p), PSess(p))
            /\ players'[PLobby(p)][PSess(p)] = players[PLobby(p)][PSess(p)]
     /\ \A a \in ASocks :
          (ADisconnectStep(a) /\ AdminReplaced(a)) =>
            /\ AWeb(a) \in DOMAIN admins'
            /\ admins'[AWeb(a)] = admins[AWeb(a)]]_vars

\* Admin socket a's connect inserts its connection in this step.
AConnectStep(a) == pc[a] = "a_init" /\ pc'[a] = "ac_len"
\* The session of admin socket a is registered and subscribed to no lobby.
SessionUnsubscribed(a) ==
  AWeb(a) \in DOMAIN admins /\ subs[admins[AWeb(a)]] = <<>>

\* C30: an admin connect registers the session with an empty subscription
\* set, also when it replaces a registered connection of the session; and a
\* broadcast that returned (no registry or subscription change since it was
\* entered) while the session is subscribed to no lobby attempted no send to
\* any socket of that session.
C30_ConnectStartsUnsubscribed ==
  [][\A a \in ASocks :
       /\ AConnectStep(a) =>
            /\ AWeb(a) \in DOMAIN admins' /\ admins'[AWeb(a)] = a
            /\ subs'[a] = <<>>
       /\ \A t \in Reqs :
            (BroadcastDone(t)' /\ SessionUnsubscribed(a)') => att'[t][a] = 0]_vars

\* C30 witness: a1 subscribed the session to lobby 1; a3 then connected with
\* the same session id; a broadcast to lobby 1 entered after that returned
\* having reached the player and neither admin socket.
C30_Witness ==
  /\ log["a1"] = <<"added">> /\ subs["a1"] = <<1>>
  /\ "w1" \in DOMAIN admins /\ admins["w1"] = "a3" /\ subs["a3"] = <<>>
  /\ BroadcastDone("r1") /\ call["r1"].lobby = 1
  /\ att["r1"]["a1"] = 0 /\ att["r1"]["a3"] = 0
  /\ received["a1"] = <<>> /\ received["a3"] = <<>>
  /\ received["p1"] = <<call["r1"].ev>>

\* ================================================================= events
\* The variables of the managers and the socket tasks.
wsvars == <<pc, lk, players, admins, subs, closed, received, call, hmsg,
            opsLeft, msgsLeft, att, fails, dirty, lastOp, log>>
\* Team ids an event is built with.
TeamIds == 0..2

\* Some event struct is about to be built from some arguments.
InitEvents ==
  /\ InitWs({}, [a \in ASocks |-> 0], 0)
  /\ store = Store(Lobbies, {}, {})
  /\ \E k \in EventKinds, l \in Lobbies, s \in Sessions, o, n \in TeamIds :
       rq = [t \in Reqs |->
               IF t = "r1"
               THEN [NoRoute EXCEPT !.op = "event", !.pc = "new", !.name = k,
                                    !.lobby = l, !.sess = s, !.old = o,
                                    !.team = n]
               ELSE NoRoute]

\* X::new(lobby_id, player_session_id, ..) is called.
BuildEvent(t) ==
  /\ rq[t].op = "event" /\ rq[t].pc = "new"
  /\ rq' = [rq EXCEPT ![t].pc = "done",
                       ![t].ev = NewEvent(rq[t].name, rq[t].lobby, rq[t].sess,
                                          rq[t].old, rq[t].team)]
  /\ UNCHANGED <<wsvars, store>>

EventsNext == \E t \in Reqs : BuildEvent(t)
SpecEvents == InitEvents /\ [][EventsNext]_vars

\* C31: an event built by its constructor carries the event_type of its kind
\* (player_joined, player_disconnected, player_kicked, team_assigned,
\* team_changed) and the lobby_id and player_session_id it was built with,
\* and its event_type field equals what its event_type() method returns.
C31_EventFields ==
  \A t \in Reqs :
    (rq[t].op = "event" /\ rq[t].pc = "done") =>
      /\ rq[t].ev[1] = (CASE rq[t].name = "JoinedLobbyEvent" -> "player_joined"
                          [] rq[t].name = "DisconnectedLobbyEvent" ->
                               "player_disconnected"
                          [] rq[t].name = "PlayerKickedEvent" -> "player_kicked"
                          [] rq[t].name = "TeamAssignedEvent" -> "team_assigned"
                          [] rq[t].name = "TeamChangedEvent" -> "team_changed")
      /\ rq[t].ev[2] = rq[t].lobby
      /\ rq[t].ev[3] = rq[t].sess
      /\ rq[t].ev[1] = EventType(rq[t].name)

\* C31 witness: a DisconnectedLobbyEvent was built for lobby 2 and session s2.
C31_Witness ==
  /\ rq["r1"].op = "event" /\ rq["r1"].pc = "done"
  /\ rq["r1"].name = "DisconnectedLobbyEvent"
  /\ rq["r1"].ev = <<"player_disconnected", 2, "s2">>

\* ================================================================= routes
\* The lobby ids requests name: 1 has three players and no team, 2 has a
\* team, 3 is empty, 4 does not exist.
LobbyIds == {1, 2, 3, 4}
\* The names join requests bring: n1 is taken in lobby 1.
Names == {"n1", "n4"}
\* The bearer tokens leave requests bring: sx is no player's session id.
Tokens == {"s1", "s3", "sx"}
\* The num_teams create_teams requests bring.
NumTeams == {1, 2, 3, 11}
\* The players move requests name (by session id; sx is no player's) and the
\* team ids they bring: 0 unassigns, 1 is the team of lobby 2, 9 is no team.
MovePlayers == {"s1", "s4", "sx"}
MoveTeams == {0, 1, 9}

\* A row of the team table (database/team.rs).
TeamRow(id, l) == [id |-> id, lobby |-> l]
\* The store the routes start from.
RouteStore ==
  Store({1, 2, 3},
        {PlayerRow(1, "s1", "n1", 0), PlayerRow(1, "s2", "n2", 0),
         PlayerRow(1, "s3", "n3", 0), PlayerRow(2, "s4", "n1", 0)},
        {TeamRow(1, 2)})

\* Player::find().filter(LobbyId.eq(l)).filter(Name.eq(n)).one: a row is found.
NameTaken(ps, l, n) == \E r \in ps : r.lobby = l /\ r.name = n
\* Mutant of NameFound: the name check finds nothing.
NameFoundNever(ps, l, n) == FALSE
\* existing_player.is_some() in join_lobby.
NameFound(ps, l, n) == NameTaken(ps, l, n)
\* Player::find().filter(LobbyId.eq(l)).all
PlayersOf(ps, l) == {r \in ps : r.lobby = l}
\* Team::find().filter(LobbyId.eq(l)).all
TeamsOf(ts, l) == {x \in ts : x.lobby = l}
\* The id the team table gives the next row.
NewTeamId(ts) ==
  IF ts = {} THEN 1
  ELSE 1 + (CHOOSE m \in {x.id : x \in ts} : \A x \in ts : x.id <= m)
\* Lobby::delete_by_id: the lobby's players and teams go with it (on_delete =
\* Cascade).
DeleteLobbyRows(st, l) ==
  Store(st.lobbies \ {l}, {r \in st.players : r.lobby # l},
        {x \in st.teams : x.lobby # l})
\* Player::delete_by_id of the row with session id s.
DeletePlayerRow(st, s) == [st EXCEPT !.players = {r \in @ : r.sess # s}]
\* player_active.update: the row of session id s gets team tm.
SetTeam(st, s, tm) ==
  [st EXCEPT !.players = {IF r.sess = s THEN [r EXCEPT !.team = tm] ELSE r :
                            r \in @}]
\* players.shuffle(&mut rng): the orders the rows can come out in.
Shuffles(S) ==
  {f \in [1..Cardinality(S) -> S] : \A i, j \in DOMAIN f : f[i] = f[j] => i = j}
\* Mutant of ValidNumTeams: one team is accepted.
ValidNumTeamsFromOne(n) == n >= 1 /\ n <= 10
\* create_teams: num_teams is between 2 and 10.
ValidNumTeams(n) == n >= 2 /\ n <= 10
\* Mutant of TeamIndex: every other player goes to the first team.
TeamIndexHalved(i, n) == (i \div 2) % n
\* create_teams: the index of the team of the i-th shuffled player, i from 0.
TeamIndex(i, n) == i % n
\* Mutant of LeaveRegistry: leaving removes the player's connection.
LeaveRegistryRemoves(m, l, s) == KickRemoveMap(m, l, s)
\* The player registry after leave_current_lobby deleted the row: the route
\* does not touch the lobby manager's registry.
LeaveRegistry(m, l, s) == m
\* Mutant of AssignedLeft: only the first player's event is broadcast.
AssignedLeftFirstOnly(list, i) == FALSE
\* create_teams: the broadcast loop has a player after the i-th.
AssignedLeft(list, i) == i < Len(list)

\* The handler answers with status code.
Answer(r, code) == [r EXCEPT !.pc = "done", !.res = code]

\* The requests that arrive: join_lobby, leave_current_lobby, delete_lobby and
\* create_teams with their arguments.
Requests ==
  {[NoRoute EXCEPT !.op = "join", !.pc = "j_find", !.lobby = l, !.name = n] :
     l \in LobbyIds, n \in Names}
  \cup {[NoRoute EXCEPT !.op = "leave", !.pc = "l_auth", !.sess = s] :
          s \in Tokens}
  \cup {[NoRoute EXCEPT !.op = "delete_lobby", !.pc = "d_find", !.lobby = l] :
          l \in LobbyIds}
  \cup {[NoRoute EXCEPT !.op = "create_teams", !.pc = "c_find", !.lobby = l,
                        !.n = n] : l \in LobbyIds, n \in NumTeams}
  \cup {[NoRoute EXCEPT !.op = "move", !.pc = "m_find", !.sess = s,
                        !.team = tm] : s \in MovePlayers, tm \in MoveTeams}

\* A request arrives and its handler starts.
StartRoute(t) ==
  /\ rq[t].op = "none" /\ pc[t] = "idle"
  /\ \E r \in Requests : rq' = [rq EXCEPT ![t] = [r EXCEPT !.db0 = store]]
  /\ UNCHANGED <<wsvars, store>>

\* join_lobby: Lobby::find().filter(Code.eq(..)).one
JoinFind(t) ==
  /\ rq[t].pc = "j_find"
  /\ rq' = [rq EXCEPT ![t] = IF rq[t].lobby \in store.lobbies
                              THEN [@ EXCEPT !.pc = "j_check"]
                              ELSE Answer(@, 404)]
  /\ UNCHANGED <<wsvars, store>>

\* join_lobby: the query for a player of that name in the lobby.
JoinCheck(t) ==
  /\ rq[t].pc = "j_check"
  /\ rq' = [rq EXCEPT ![t] = IF NameFound(store.players, rq[t].lobby, rq[t].name)
                              THEN Answer(@, 400)
                              ELSE [@ EXCEPT !.pc = "j_insert"]]
  /\ UNCHANGED <<wsvars, store>>

\* Uuid::new_v4().to_string() in join_lobby: a session id no other row has.
JoinSessionId(t) == IF t = "r1" THEN "u1" ELSE "u2"

\* join_lobby: a session id is drawn and the row inserted; the insert fails
\* when the lobby is gone (foreign key).
JoinInsert(t) ==
  /\ rq[t].pc = "j_insert"
  /\ IF rq[t].lobby \in store.lobbies
     THEN /\ store' = [store EXCEPT !.players =
                         @ \cup {PlayerRow(rq[t].lobby, JoinSessionId(t),
                                           rq[t].name, 0)}]
          /\ rq' = [rq EXCEPT ![t].pc = "j_bcast", ![t].sess = JoinSessionId(t)]
     ELSE /\ store' = store
          /\ rq' = [rq EXCEPT ![t] = Answer(@, 500)]
  /\ UNCHANGED wsvars

\* leave_current_lobby: the AuthenticatedPlayer extractor looks the bearer
\* token up among the session ids.
LeaveAuth(t) ==
  /\ rq[t].pc = "l_auth"
  /\ IF \E r \in store.players : r.sess = rq[t].sess
     THEN \E r \in store.players :
            /\ r.sess = rq[t].sess
            /\ rq' = [rq EXCEPT ![t].pc = "l_delete", ![t].lobby = r.lobby]
     ELSE rq' = [rq EXCEPT ![t] = Answer(@, 401)]
  /\ UNCHANGED <<wsvars, store>>

\* leave_current_lobby: Player::delete_by_id.
LeaveDelete(t) ==
  /\ rq[t].pc = "l_delete"
  /\ store' = DeletePlayerRow(store, rq[t].sess)
  /\ players' = LeaveRegistry(players, rq[t].lobby, rq[t].sess)
  /\ rq' = [rq EXCEPT ![t].pc = "l_bcast"]
  /\ UNCHANGED <<pc, lk, admins, subs, closed, received, call, hmsg, opsLeft,
                 msgsLeft, att, fails, dirty, lastOp, log>>

\* delete_lobby: Lobby::find_by_id.
DeleteFind(t) ==
  /\ rq[t].pc = "d_find"
  /\ rq' = [rq EXCEPT ![t] = IF rq[t].lobby \in store.lobbies
                              THEN [@ EXCEPT !.pc = "d_delete"]
                              ELSE Answer(@, 404)]
  /\ UNCHANGED <<wsvars, store>>

\* delete_lobby: Lobby::delete_by_id, and the answer.
DeleteExec(t) ==
  /\ rq[t].pc = "d_delete"
  /\ store' = DeleteLobbyRows(store, rq[t].lobby)
  /\ rq' = [rq EXCEPT ![t] = Answer(@, 200)]
  /\ UNCHANGED wsvars

\* create_teams: the test of num_teams and Lobby::find_by_id.
CreateFind(t) ==
  /\ rq[t].pc = "c_find"
  /\ rq' = [rq EXCEPT ![t] = IF ~ValidNumTeams(rq[t].n) THEN Answer(@, 400)
                              ELSE IF rq[t].lobby \notin store.lobbies
                              THEN Answer(@, 404)
                              ELSE [@ EXCEPT !.pc = "c_teams"]]
  /\ UNCHANGED <<wsvars, store>>

\* create_teams: the query for the lobby's teams.
CreateTeamsCheck(t) ==
  /\ rq[t].pc = "c_teams"
  /\ rq' = [rq EXCEPT ![t] = IF TeamsOf(store.teams, rq[t].lobby) # {}
                              THEN Answer(@, 400)
                              ELSE [@ EXCEPT !.pc = "c_players"]]
  /\ UNCHANGED <<wsvars, store>>

\* create_teams: the query for the lobby's players.
CreatePlayers(t) ==
  /\ rq[t].pc = "c_players"
  /\ rq' = [rq EXCEPT ![t] =
              IF PlayersOf(store.players, rq[t].lobby) = {} THEN Answer(@, 400)
              ELSE [@ EXCEPT !.pc = "c_insert",
                             !.rows = PlayersOf(store.players, rq[t].lobby)]]
  /\ UNCHANGED <<wsvars, store>>

\* create_teams: one team.insert (it fails when the lobby is gone); after the
\* last one the players are shuffled.
CreateInsert(t) ==
  /\ rq[t].pc = "c_insert"
  /\ IF rq[t].lobby \notin store.lobbies
     THEN /\ store' = store
          /\ rq' = [rq EXCEPT ![t] = Answer(@, 500)]
     ELSE /\ store' = [store EXCEPT !.teams =
                         @ \cup {TeamRow(NewTeamId(store.teams), rq[t].lobby)}]
          /\ LET made == Append(rq[t].made, NewTeamId(store.teams))
             IN IF Len(made) < rq[t].n
                THEN rq' = [rq EXCEPT ![t].made = made]
                ELSE \E f \in Shuffles(rq[t].rows) :
                       rq' = [rq EXCEPT ![t].made = made, ![t].list = f,
                                        ![t].i = 1, ![t].pc = "c_assign"]
  /\ UNCHANGED wsvars

\* create_teams: player_active.update of the i-th shuffled player; it fails
\* when the row or the team is gone.
CreateAssign(t) ==
  /\ rq[t].pc = "c_assign"
  /\ LET r == rq[t]
         tm == r.made[TeamIndex(r.i - 1, r.n) + 1]
     IN IF /\ \E x \in store.players : x.sess = r.list[r.i].sess
           /\ \E x \in store.teams : x.id = tm
        THEN /\ store' = SetTeam(store, r.list[r.i].sess, tm)
             /\ rq' = [rq EXCEPT ![t] = IF AssignedLeft(r.list, r.i)
                                         THEN [@ EXCEPT !.i = r.i + 1]
                                         ELSE [@ EXCEPT !.i = 1, !.pc = "c_bcast"]]
        ELSE /\ store' = store
             /\ rq' = [rq EXCEPT ![t] = Answer(@, 500)]
  /\ UNCHANGED wsvars

\* move_player_to_team: Player::find_by_id; team_id 0 unassigns and skips the
\* look-up of the team.
MoveFind(t) ==
  /\ rq[t].pc = "m_find"
  /\ IF \E r \in store.players : r.sess = rq[t].sess
     THEN \E r \in store.players :
            /\ r.sess = rq[t].sess
            /\ rq' = [rq EXCEPT ![t].lobby = r.lobby, ![t].old = r.team,
                                ![t].pc = IF rq[t].team = 0 THEN "m_update"
                                          ELSE "m_team"]
     ELSE rq' = [rq EXCEPT ![t] = Answer(@, 404)]
  /\ UNCHANGED <<wsvars, store>>

\* move_player_to_team: Team::find_by_id and the test that the team is in the
\* player's lobby.
MoveTeam(t) ==
  /\ rq[t].pc = "m_team"
  /\ rq' = [rq EXCEPT ![t] =
              IF ~\E x \in store.teams : x.id = rq[t].team
              THEN Answer(@, 404)
              ELSE IF TeamRow(rq[t].team, rq[t].lobby) \notin store.teams
              THEN Answer(@, 400)
              ELSE [@ EXCEPT !.pc = "m_update"]]
  /\ UNCHANGED <<wsvars, store>>

\* move_player_to_team: player.update; it fails when the row or the team is
\* gone.
MoveUpdate(t) ==
  /\ rq[t].pc = "m_update"
  /\ IF /\ \E x \in store.players : x.sess = rq[t].sess
        /\ IF rq[t].team = 0 THEN TRUE
           ELSE \E x \in store.teams : x.id = rq[t].team
     THEN /\ store' = SetTeam(store, rq[t].sess, rq[t].team)
          /\ rq' = [rq EXCEPT ![t].pc = "m_bcast"]
     ELSE /\ store' = store
          /\ rq' = [rq EXCEPT ![t] = Answer(@, 500)]
  /\ UNCHANGED wsvars

\* The event the handler broadcasts next.
RouteEvent(r) ==
  CASE r.op = "join" -> JoinedLobbyEvent(r.lobby, r.sess)
    [] r.op = "leave" -> DisconnectedLobbyEvent(r.lobby, r.sess)
    [] r.op = "move" -> TeamChangedEvent(r.lobby, r.sess, r.old, r.team)
    [] OTHER -> TeamAssignedEvent(r.lobby, r.list[r.i].sess)

\* The handler builds its event and calls broadcast_to_lobby(lobby_id, &event).
RouteBroadcast(t) ==
  /\ rq[t].pc \in {"j_bcast", "l_bcast", "c_bcast", "m_bcast"}
  /\ pc[t] = "idle"
  /\ call' = [call EXCEPT ![t] = [NoCall EXCEPT !.op = "bcast",
                                    !.lobby = rq[t].lobby,
                                    !.ev = RouteEvent(rq[t])]]
  /\ pc' = [pc EXCEPT ![t] = AfterSerialize(TRUE)]
  /\ att' = [att EXCEPT ![t] = [s \in Socks |-> 0]]
  /\ fails' = [fails EXCEPT ![t] = {}]
  /\ dirty' = [dirty EXCEPT ![t] = FALSE]
  /\ rq' = [rq EXCEPT ![t].pc = "wait", ![t].sent = @ + 1,
                      ![t].ev = RouteEvent(rq[t])]
  /\ UNCHANGED <<lk, players, admins, subs, closed, received, hmsg, opsLeft,
                 msgsLeft, lastOp, log, store>>

\* broadcast_to_lobby returned: create_teams goes on with the next player, the
\* other handlers answer.
RouteResume(t) ==
  /\ rq[t].pc = "wait"
  /\ pc[t] = "idle"
  /\ rq' = [rq EXCEPT ![t] =
              IF @.op = "create_teams" /\ AssignedLeft(@.list, @.i)
              THEN [@ EXCEPT !.i = @ + 1, !.pc = "c_bcast"]
              ELSE Answer(@, 200)]
  /\ UNCHANGED <<wsvars, store>>

\* The steps of the handler of task t.
RouteStep(t) ==
  \/ StartRoute(t)
  \/ JoinFind(t) \/ JoinCheck(t) \/ JoinInsert(t)
  \/ LeaveAuth(t) \/ LeaveDelete(t)
  \/ DeleteFind(t) \/ DeleteExec(t)
  \/ CreateFind(t) \/ CreateTeamsCheck(t) \/ CreatePlayers(t)
  \/ CreateInsert(t) \/ CreateAssign(t)
  \/ MoveFind(t) \/ MoveTeam(t) \/ MoveUpdate(t)
  \/ RouteBroadcast(t) \/ RouteResume(t)

\* The steps of a broadcast_to_lobby call; the registries have no writer
\* here, so no lock is waited for.
BroadcastNext ==
  \E t \in Reqs : \/ BroadcastLock(t) \/ SinkAcquire(t)
                   \/ BroadcastSend(t) \/ AdminBroadcastLock(t)
                   \/ AdminBroadcastScan(t) \/ AdminBroadcastConn(t)
                   \/ AdminBroadcastSend(t)

\* One request at a time, served by r1.
RoutesNext == RouteStep("r1") \/ BroadcastNext

\* The sockets p1 and p2 of lobby 1 are connected, and so is admin a1, which
\* subscribed to lobby 1; no request has arrived.
InitRoutes ==
  /\ pc = [t \in Tasks |-> IF t \in Reqs THEN "idle"
                           ELSE IF t \in {"p1", "p2", "a1"} THEN "open"
                           ELSE "off"]
  /\ lk = [l \in LockIds |-> FreeLock]
  /\ players = ConnectMap(ConnectMap(EmptyMap, 1, "s1", "p1"), 1, "s2", "p2")
  /\ admins = Insert(EmptyMap, "w1", "a1")
  /\ subs = [a \in ASocks |-> IF a = "a1" THEN SubscribeVec(<<>>, 1) ELSE <<>>]
  /\ closed = {}
  /\ received = [s \in Socks |-> <<>>]
  /\ call = [t \in Reqs |-> NoCall]
  /\ hmsg = [a \in ASocks |-> NoMsg]
  /\ opsLeft = [t \in Reqs |-> 0]
  /\ msgsLeft = [a \in ASocks |-> 0]
  /\ log = [s \in Socks |-> NoLog]
  /\ att = [t \in Reqs |-> [s \in Socks |-> 0]]
  /\ fails = [t \in Reqs |-> {}]
  /\ dirty = [t \in Reqs |-> FALSE]
  /\ lastOp = [k \in Lobbies \X Sessions |->
                 IF k[1] = 1 THEN "connect" ELSE "none"]
  /\ store = RouteStore
  /\ rq = [t \in Reqs |-> NoRoute]

SpecRoutes == InitRoutes /\ [][RoutesNext]_vars

\* create_teams of task t has assigned every player it read.
Assigned(t) ==
  /\ rq[t].op = "create_teams"
  /\ rq[t].pc \in {"c_bcast", "wait", "done"}
  /\ rq[t].res \in {0, 200}
  /\ rq[t].made # <<>> /\ rq[t].list # <<>>
\* The number of the lobby's players in the k-th team task t made.
TeamSize(t, k) ==
  Cardinality({r \in PlayersOf(store.players, rq[t].lobby) :
                 r.team = rq[t].made[k]})
RECURSIVE SumSizes(_, _)
SumSizes(t, k) == IF k = 0 THEN 0 ELSE TeamSize(t, k) + SumSizes(t, k - 1)

\* C32: once create_teams has assigned the players, the i-th shuffled player
\* (from 0) is in team i mod num_teams, every player of the lobby is in one of
\* the new teams, the team sizes sum to the number of players and any two of
\* them differ by at most one.
C32_BalancedTeams ==
  \A t \in Reqs :
    Assigned(t) =>
      LET r == rq[t]
          ps == PlayersOf(store.players, r.lobby)
      IN /\ Len(r.made) = r.n
         /\ \A i \in 1..Len(r.list) :
              \E x \in ps : /\ x.sess = r.list[i].sess
                            /\ x.team = r.made[((i - 1) % r.n) + 1]
         /\ \A x \in ps : \E k \in 1..r.n : x.team = r.made[k]
         /\ SumSizes(t, r.n) = Cardinality(ps)
         /\ \A j, k \in 1..r.n :
              TeamSize(t, j) - TeamSize(t, k) \in {-1, 0, 1}

\* C32 witness: create_teams with two teams has answered for lobby 1 and its
\* three players: one team has two players, the other one.
C32_Witness ==
  /\ Assigned("r1") /\ rq["r1"].res = 200
  /\ rq["r1"].n = 2 /\ Len(rq["r1"].list) = 3
  /\ {TeamSize("r1", 1), TeamSize("r1", 2)} = {1, 2}
  /\ TeamSize("r1", 1) = 2

\* A broadcast_to_lobby call of create_teams by task t has returned and the
\* handler goes on.
AssignedReturned(t) ==
  rq[t].op = "create_teams" /\ rq[t].pc = "wait" /\ rq'[t].pc # "wait"

\* C33: create_teams issues one team_assigned event per player it read, each
\* through broadcast_to_lobby: every call was for the next player's event and
\* attempted one send to every player connection of the lobby and every
\* subscribed admin (received unless that send failed), and the handler
\* answers after as many calls as there are players.
C33_AssignedToWholeLobby ==
  [][\A t \in Reqs :
       AssignedReturned(t) =>
         /\ rq[t].sent = rq[t].i
         /\ call[t].ev = TeamAssignedEvent(rq[t].lobby, rq[t].list[rq[t].i].sess)
         /\ \A x \in Members(rq[t].lobby) :
              /\ att[t][x] = 1
              /\ x \notin fails[t] => Count(received[x], call[t].ev) >= 1
         /\ rq'[t].pc = "done" => rq[t].sent = Len(rq[t].list)]_vars

\* C33 witness: create_teams answered for lobby 1 with its three players, and
\* p1, p2 and the subscribed admin a1 each received the three events.
C33_Witness ==
  /\ rq["r1"].op = "create_teams" /\ rq["r1"].res = 200
  /\ rq["r1"].sent = 3
  /\ \A x \in {"p1", "p2", "a1"} :
       /\ Len(received[x]) = 3
       /\ \A z \in {"s1", "s2", "s3"} :
            Count(received[x], TeamAssignedEvent(1, z)) = 1

\* The request of task t is one create_teams has to reject, judged on the
\* store the request found: num_teams below 2 or above 10, no such lobby, a
\* lobby that has teams, a lobby without players.
MustReject(t) ==
  LET d == rq[t].db0
  IN \/ rq[t].n < 2 \/ rq[t].n > 10
     \/ rq[t].lobby \notin d.lobbies
     \/ TeamsOf(d.teams, rq[t].lobby) # {}
     \/ PlayersOf(d.players, rq[t].lobby) = {}

\* C34: a create_teams request with num_teams below 2 or above 10, for a lobby
\* that does not exist, that already has teams or that has no players, is
\* answered with an error, and at no point of its handling is a team created,
\* a player's team changed or an event broadcast.
C34_RejectedCreatesNothing ==
  \A t \in Reqs :
    (rq[t].op = "create_teams" /\ MustReject(t)) =>
      /\ store = rq[t].db0
      /\ rq[t].sent = 0
      /\ \A x \in Socks : received[x] = <<>>
      /\ rq[t].pc \in {"c_find", "c_teams", "c_players", "done"}
      /\ rq[t].pc = "done" => rq[t].res \in {400, 404}

\* C34 witness: create_teams with two teams for lobby 2, which has a team, was
\* answered 400.
C34_Witness ==
  /\ rq["r1"].op = "create_teams" /\ rq["r1"].pc = "done"
  /\ rq["r1"].lobby = 2 /\ rq["r1"].n = 2
  /\ rq["r1"].res = 400
  /\ store.teams = {TeamRow(1, 2)}

\* The join request of task t names a code no lobby has, or a name a player
\* of the lobby has, judged on the store the request found.
JoinMustFail(t) ==
  \/ rq[t].lobby \notin rq[t].db0.lobbies
  \/ NameTaken(rq[t].db0.players, rq[t].lobby, rq[t].name)

\* C35: join_lobby broadcasts one player_joined event, for the row it created
\* and while that row is in the store, and has done so when it answers 200; a
\* join with an unknown code or a taken name is answered with an error,
\* creates no player and broadcasts nothing.
C35_JoinBroadcastsOnce ==
  \A t \in Reqs :
    rq[t].op = "join" =>
      LET r == rq[t]
      IN /\ r.sent <= 1
         /\ r.sent = 1 =>
              /\ PlayerRow(r.lobby, r.sess, r.name, 0) \in store.players
              /\ r.ev = JoinedLobbyEvent(r.lobby, r.sess)
              /\ r.pc \in {"wait", "done"}
         /\ (r.pc = "done" /\ r.res = 200) =>
              /\ r.sent = 1
              /\ \A x \in Members(r.lobby) :
                   x \notin fails[t] => Count(received[x], r.ev) = 1
         /\ (r.pc = "done" /\ r.res # 200) =>
              /\ r.sent = 0 /\ store = r.db0
              /\ \A x \in Socks : received[x] = <<>>
         /\ JoinMustFail(t) =>
              /\ store = r.db0 /\ r.sent = 0
              /\ r.pc \in {"j_find", "j_check", "done"}
              /\ r.pc = "done" => r.res \in {400, 404}

\* C35 witness: a join of lobby 1 under a free name answered 200, its row is
\* in the store, and p1, p2 and the admin a1 received its one event.
C35_Witness ==
  /\ rq["r1"].op = "join" /\ rq["r1"].pc = "done" /\ rq["r1"].res = 200
  /\ PlayerRow(1, "u1", "n4", 0) \in store.players
  /\ \A x \in {"p1", "p2", "a1"} :
       received[x] = <<JoinedLobbyEvent(1, "u1")>>

\* ================================================================== races
\* The store two racing requests start from: lobby 1 has two players and no
\* team, lobby 2 has a team, lobby 3 is empty.
RaceStore ==
  Store({1, 2, 3},
        {PlayerRow(1, "s1", "n1", 0), PlayerRow(1, "s2", "n2", 0)},
        {TeamRow(1, 2)})

\* The steps of a broadcast_to_lobby call while no admin is connected.
RaceBroadcastNext ==
  \E t \in Reqs : \/ BroadcastLock(t) \/ SinkAcquire(t)
                   \/ BroadcastSend(t) \/ AdminBroadcastLock(t)

\* The handlers of two requests run at once: axum serves every request on a
\* task of its own, and each query of a handler is a statement of its own on
\* the connection pool (no transaction is opened).
RaceNext == (\E t \in Reqs : RouteStep(t)) \/ RaceBroadcastNext

\* The socket p1 of lobby 1 is connected, no admin is; no request has
\* arrived.
InitRace ==
  /\ pc = [t \in Tasks |-> IF t \in Reqs THEN "idle"
                           ELSE IF t = "p1" THEN "open" ELSE "off"]
  /\ lk = [l \in LockIds |-> FreeLock]
  /\ players = ConnectMap(EmptyMap, 1, "s1", "p1")
  /\ admins = EmptyMap
  /\ subs = [a \in ASocks |-> <<>>]
  /\ closed = {}
  /\ received = [s \in Socks |-> <<>>]
  /\ call = [t \in Reqs |-> NoCall]
  /\ hmsg = [a \in ASocks |-> NoMsg]
  /\ opsLeft = [t \in Reqs |-> 0]
  /\ msgsLeft = [a \in ASocks |-> 0]
  /\ log = [s \in Socks |-> NoLog]
  /\ att = [t \in Reqs |-> [s \in Socks |-> 0]]
  /\ fails = [t \in Reqs |-> {}]
  /\ dirty = [t \in Reqs |-> FALSE]
  /\ lastOp = [k \in Lobbies \X Sessions |->
                 IF k = <<1, "s1">> THEN "connect" ELSE "none"]
  /\ store = RaceStore
  /\ rq = [t \in Reqs |-> NoRoute]

SpecRace == InitRace /\ [][RaceNext]_vars

\* C36: of two create_teams requests for the same lobby whose handlers
\* interleave, at most one is answered 200.
C36_OneCreateSucceeds ==
  \A t, u \in Reqs :
    (/\ t # u
     /\ rq[t].op = "create_teams" /\ rq[u].op = "create_teams"
     /\ rq[t].lobby = rq[u].lobby
     /\ rq[t].pc = "done" /\ rq[u].pc = "done")
    => ~(rq[t].res = 200 /\ rq[u].res = 200)

\* C37: no lobby has two player rows of the same name.
C37_NamesUnique ==
  \A x, y \in store.players :
    (x.lobby = y.lobby /\ x.name = y.name) => x = y

\* C38: no step of a join, leave, delete-lobby, team-move or team-create
\* handler, the broadcasts they call included, adds or removes an entry of the
\* player registry or of the admin registry or changes a subscription; and
\* every broadcast such a handler makes is sent to each connection registered
\* for its lobby, whether or not the store still holds that player or lobby.
C38_RoutesLeaveRegistries ==
  [][/\ players' = players /\ admins' = admins /\ subs' = subs
     /\ \A t \in Reqs :
          (rq[t].pc = "wait" /\ rq'[t].pc # "wait") =>
            \A x \in Members(rq[t].lobby) : att[t][x] = 1]_vars

\* C38 witness: the player of session s1 left lobby 1 and its row is gone; a
\* join that arrived afterwards was answered, and p1, still registered under
\* the key of s1, received that join's event.
C38_Witness ==
  /\ rq["r1"].op = "leave" /\ rq["r1"].sess = "s1" /\ rq["r1"].res = 200
  /\ rq["r2"].op = "join" /\ rq["r2"].res = 200
  /\ ~HasRow(rq["r2"].db0.players, 1, "s1")
  /\ ~HasRow(store.players, 1, "s1")
  /\ LookupSink(players, 1, "s1") = "p1"
  /\ Count(received["p1"], JoinedLobbyEvent(1, "u2")) = 1

\* ======================================================== admin registry
\* What arrives at the admin sockets and the routes: control messages, the end
\* of a receive loop, and events to broadcast.
AdminEnvNext ==
  \/ \E a \in ASocks : ARecvControl(a) \/ ARecvMalformed(a) \/ ARecvEnd(a)
  \/ \E t \in Reqs : StartBroadcast(t)

\* The steps of the admin manager's calls: connect, disconnect, subscribe,
\* unsubscribe, and broadcast_to_lobby up to its sends.
AdminProgNext ==
  \/ \E t \in Tasks : Enqueue(t)
  \/ \E a \in ASocks : \/ AConnect(a) \/ ALen(a) \/ ASubLock(a)
                       \/ ASubApply(a) \/ ADisconnect(a)
  \/ \E t \in Reqs : \/ BroadcastLock(t) \/ AdminBroadcastLock(t)
                     \/ AdminBroadcastScan(t) \/ AdminBroadcastConn(t)
                     \/ SinkAcquire(t) \/ AdminBroadcastSend(t)

AdminLocksNext == AdminEnvNext \/ AdminProgNext

\* Two admin sockets of two sessions and no player; a1 sends up to MaxMsgs
\* messages and a2 none; each of the two route tasks broadcasts up to MaxOps
\* events.
InitAdminLocks ==
  /\ pc = [t \in Tasks |-> IF t \in Reqs THEN "idle"
                           ELSE IF t \in {"a1", "a2"} THEN "a_init"
                           ELSE "off"]
  /\ lk = [l \in LockIds |-> FreeLock]
  /\ players = EmptyMap
  /\ admins = EmptyMap
  /\ subs = [a \in ASocks |-> <<>>]
  /\ closed = {}
  /\ received = [s \in Socks |-> <<>>]
  /\ call = [t \in Reqs |-> NoCall]
  /\ hmsg = [a \in ASocks |-> NoMsg]
  /\ opsLeft = [t \in Reqs |-> MaxOps]
  /\ msgsLeft = [a \in ASocks |-> IF a = "a1" THEN MaxMsgs ELSE 0]
  /\ log = [s \in Socks |-> NoLog]
  /\ att = [t \in Reqs |-> [s \in Socks |-> 0]]
  /\ fails = [t \in Reqs |-> {}]
  /\ dirty = [t \in Reqs |-> FALSE]
  /\ lastOp = [k \in Lobbies \X Sessions |-> "none"]
  /\ store = Store(Lobbies, PlayerRows, {})
  /\ rq = [t \in Reqs |-> NoRoute]

\* The runtime keeps polling the tasks that can run, and every transport send
\* completes: some step of the calls that can be taken is taken.
FairAdminLocks ==
  InitAdminLocks /\ [][AdminLocksNext]_vars /\ WF_vars(AdminProgNext)

\* Task x is inside a call on the admin registry: connect, disconnect,
\* subscribe_to_lobby or unsubscribe_from_lobby of a socket's handler, the
\* admin part of broadcast_to_lobby of a route handler.
InAdminCall(x) ==
  pc[x] \in {"a_init", "ac_len", "as_lock", "as_connw", "ad_lock", "ad_len",
             "ab_lock", "ab_connr", "ab_connw", "ab_sink", "ab_send"}

\* C39: every connect, disconnect, subscribe_to_lobby, unsubscribe_from_lobby
\* and broadcast_to_lobby call on the admin registry that was entered
\* completes, under every interleaving of the calls: no task stays inside
\* such a call for ever.
C39_AdminCallsComplete ==
  \A x \in ASocks \cup Reqs : []<>(~InAdminCall(x))

\* C39 witness: r1's broadcast holds the connection lock and the sink lock of
\* a1 for its send; r2's broadcast holds the registry's read lock and is
\* queued for a1's connection lock; a2's disconnect is queued for the
\* registry's write lock.
C39_Witness ==
  /\ pc["r1"] = "ab_send" /\ call["r1"].cur = "a1"
  /\ lk[ConnLock("a1")].w = "r1" /\ lk[SinkLock("a1")].w = "r1"
  /\ pc["r2"] = "ab_connr" /\ call["r2"].cur = "a1"
  /\ Queued(lk, ConnLock("a1"), "r2") /\ "r2" \in lk[ALock].r
  /\ pc["a2"] = "ad_lock" /\ Queued(lk, ALock, "a2")

====
